---------------------------- MODULE Spec2Model ----------------------------
(***************************************************************************)
(* FL Bridge: the SysEx frame codec (protocol/sysex.py), the command       *)
(* registry and dispatcher (protocol/commands.py) and the host callbacks   *)
(* with the response queue (device_FLBridge.py).                           *)
(*                                                                         *)
(* Python values are modelled as records [t, a, kv]:                       *)
(*   t  the type tag ("dict", "list", "str", "bytes", "int", "float",       *)
(*      "bool", "None", "object", or the class name of an exception),      *)
(*   a  a sequence of integers: the code points of a str, the bytes of a   *)
(*      bytes or of a frame, the value of an int or bool, the literal text *)
(*      of a float, str(e) of an exception,                                *)
(*   kv a sequence of <<key, value>> pairs: the items of a dict in         *)
(*      insertion order (key: the code points of a str key), the elements  *)
(*      of a list (key: <<>>).                                             *)
(* A Python function that may raise returns either its value or the        *)
(* exception instance; the callers test IsExc where the code has try.      *)
(* bytes and str are sequences of integers (byte values, code points).     *)
(***************************************************************************)
EXTENDS Integers, Sequences, FiniteSets, TLC

(***************************************************************************)
(* Text literals                                                           *)
(***************************************************************************)
\* The printable ASCII characters in code point order: 32 (space) to 95, and
\* 97 to 126 (a literal cannot hold the grave accent, 96).
AsciiLo == " !\"#$%&'()*+,-./0123456789:;<=>?@ABCDEFGHIJKLMNOPQRSTUVWXYZ[\\]^_"
AsciiHi == "abcdefghijklmnopqrstuvwxyz{|}~"

\* ord(c) of the one-character literals, as a table
OrdTable ==
    [c \in {SubSeq(AsciiLo, k, k) : k \in 1..Len(AsciiLo)}
            \cup {SubSeq(AsciiHi, k, k) : k \in 1..Len(AsciiHi)} |->
        IF \E k \in 1..Len(AsciiLo) : SubSeq(AsciiLo, k, k) = c
        THEN 31 + (CHOOSE k \in 1..Len(AsciiLo) : SubSeq(AsciiLo, k, k) = c)
        ELSE 96 + (CHOOSE k \in 1..Len(AsciiHi) : SubSeq(AsciiHi, k, k) = c)]

\* ord(c) of a one-character literal
Ord(c) == OrdTable[c]

\* The code points of a literal
S(lit) == [i \in 1..Len(lit) |-> Ord(SubSeq(lit, i, i))]

RECURSIVE Concat(_)
\* "".join(parts)
Concat(parts) ==
    LET n == Len(parts)
    IN  IF n = 0 THEN <<>>
        ELSE IF n = 1 THEN parts[1]
        ELSE Concat(SubSeq(parts, 1, n \div 2)) \o Concat(SubSeq(parts, n \div 2 + 1, n))

\* str(n) for an integer n >= 0
RECURSIVE DecDigits(_)
DecDigits(n) ==
    IF n < 10 THEN <<48 + n>> ELSE DecDigits(n \div 10) \o <<48 + (n % 10)>>

\* str(n) for an integer
IntStr(n) == IF n < 0 THEN <<45>> \o DecDigits(0 - n) ELSE DecDigits(n)

\* one lower-case hexadecimal digit
HexDigit(d) == IF d < 10 THEN 48 + d ELSE 87 + d

(***************************************************************************)
(* Python values                                                           *)
(***************************************************************************)
ExcTypes == {"Exception", "TypeError", "ValueError", "AttributeError",
             "KeyError", "UnicodeDecodeError", "binascii.Error",
             "JSONDecodeError", "ImportError", "OSError"}

PyNone == [t |-> "None", a |-> <<>>, kv |-> <<>>]
PyTrue == [t |-> "bool", a |-> <<1>>, kv |-> <<>>]
PyFalse == [t |-> "bool", a |-> <<0>>, kv |-> <<>>]
PyBool(b) == IF b THEN PyTrue ELSE PyFalse
PyInt(n) == [t |-> "int", a |-> <<n>>, kv |-> <<>>]
PyFloat(text) == [t |-> "float", a |-> text, kv |-> <<>>]
PyStr(s) == [t |-> "str", a |-> s, kv |-> <<>>]
PyDict(items) == [t |-> "dict", a |-> <<>>, kv |-> items]
PyList(elems) == [t |-> "list", a |-> <<>>, kv |-> [i \in 1..Len(elems) |-> <<<<>>, elems[i]>>]]
\* a bytes object, or a list of byte values (a frame)
PyBytes(b) == [t |-> "bytes", a |-> b, kv |-> <<>>]
\* an instance of a class json cannot serialise
PyObject == [t |-> "object", a |-> <<>>, kv |-> <<>>]
\* an exception instance of class cls with str(e) = msg
Exc(cls, msg) == [t |-> cls, a |-> msg, kv |-> <<>>]

\* type(v).__name__
TypeName(v) == IF v.t = "None" THEN S("NoneType") ELSE S(v.t)

IsExc(v) == v.t \in ExcTypes
IsDict(v) == v.t = "dict"
IsStr(v) == v.t = "str"

\* bool(v): the truth value of a Python value
Truthy(v) ==
    CASE v.t = "None" -> FALSE
      [] v.t \in {"bool", "int"} -> v.a[1] # 0
      [] v.t = "str" -> v.a # <<>>
      [] v.t \in {"dict", "list"} -> v.kv # <<>>
      [] OTHER -> TRUE

\* key in d
DictHas(d, key) == \E i \in 1..Len(d.kv) : d.kv[i][1] = key

\* d[key] for a key that is present
DictAt(d, key) == d.kv[CHOOSE i \in 1..Len(d.kv) : d.kv[i][1] = key][2]

\* d.get(key, default)
DictGet(d, key, default) == IF DictHas(d, key) THEN DictAt(d, key) ELSE default

\* d[key] = val: an existing key keeps its place, a new key is appended
DictSet(d, key, val) ==
    IF DictHas(d, key)
    THEN [d EXCEPT !.kv = [i \in 1..Len(d.kv) |->
                              IF d.kv[i][1] = key THEN <<key, val>> ELSE d.kv[i]]]
    ELSE [d EXCEPT !.kv = Append(d.kv, <<key, val>>)]

(***************************************************************************)
(* json.dumps (default arguments: ensure_ascii, separators ", " and ": ")  *)
(***************************************************************************)
\* "\uXXXX" for a code unit u < 65536
UEscape(u) ==
    <<92, 117, HexDigit(u \div 4096), HexDigit((u \div 256) % 16),
      HexDigit((u \div 16) % 16), HexDigit(u % 16)>>

\* json.encoder.py_encode_basestring_ascii: the text of one character
EscapeChar(c) ==
    CASE c = 34 -> <<92, 34>>
      [] c = 92 -> <<92, 92>>
      [] c = 10 -> <<92, 110>>
      [] c = 13 -> <<92, 114>>
      [] c = 9 -> <<92, 116>>
      [] c = 8 -> <<92, 98>>
      [] c = 12 -> <<92, 102>>
      [] c >= 32 /\ c <= 126 -> <<c>>
      [] c < 65536 -> UEscape(c)
      [] OTHER -> UEscape(55296 + ((c - 65536) \div 1024))
                  \o UEscape(56320 + ((c - 65536) % 1024))

\* the JSON text of a str
DumpsStr(s) == <<34>> \o Concat([i \in 1..Len(s) |-> EscapeChar(s[i])]) \o <<34>>

RECURSIVE Encodable(_)
\* whether json.dumps can serialise v (str keys only occur in the model)
Encodable(v) ==
    CASE v.t \in {"None", "bool", "int", "float", "str"} -> TRUE
      [] v.t \in {"dict", "list"} ->
            \A i \in 1..Len(v.kv) : Encodable(v.kv[i][2])
      [] OTHER -> FALSE

RECURSIVE JoinItems(_, _)
\* sep.join(parts)
JoinItems(parts, sep) ==
    IF Len(parts) = 0 THEN <<>>
    ELSE IF Len(parts) = 1 THEN parts[1]
    ELSE parts[1] \o sep \o JoinItems(Tail(parts), sep)

RECURSIVE DumpsText(_)
\* the JSON text of a serialisable value
DumpsText(v) ==
    CASE v.t = "None" -> S("null")
      [] v.t = "bool" -> IF v.a[1] = 1 THEN S("true") ELSE S("false")
      [] v.t = "int" -> IntStr(v.a[1])
      [] v.t = "float" -> v.a
      [] v.t = "str" -> DumpsStr(v.a)
      [] v.t = "list" ->
            <<91>> \o JoinItems([i \in 1..Len(v.kv) |-> DumpsText(v.kv[i][2])], S(", "))
                   \o <<93>>
      [] v.t = "dict" ->
            <<123>> \o JoinItems([i \in 1..Len(v.kv) |->
                                    DumpsStr(v.kv[i][1]) \o S(": ")
                                        \o DumpsText(v.kv[i][2])], S(", "))
                    \o <<125>>

\* json.dumps(v): the text, or the TypeError it raises
json_dumps(v) ==
    IF Encodable(v) THEN PyStr(DumpsText(v))
    ELSE Exc("TypeError", S("Object of type object is not JSON serializable"))

(***************************************************************************)
(* str.encode('utf-8'), bytes.decode('utf-8'), bytes.decode('ascii')       *)
(***************************************************************************)
\* the UTF-8 bytes of one code point (no surrogates occur: json.dumps escapes)
Utf8Char(c) ==
    CASE c < 128 -> <<c>>
      [] c < 2048 -> <<192 + (c \div 64), 128 + (c % 64)>>
      [] c < 65536 -> <<224 + (c \div 4096), 128 + ((c \div 64) % 64), 128 + (c % 64)>>
      [] OTHER -> <<240 + (c \div 262144), 128 + ((c \div 4096) % 64),
                    128 + ((c \div 64) % 64), 128 + (c % 64)>>

\* s.encode('utf-8')
encode_utf8(s) == Concat([i \in 1..Len(s) |-> Utf8Char(s[i])])

IsCont(b) == b >= 128 /\ b <= 191

\* the length of the well-formed UTF-8 sequence that starts at b[i], or 0
Utf8SeqLen(b, i) ==
    LET n == Len(b)
        b0 == b[i]
        c(k) == IF i + k <= n THEN b[i + k] ELSE 0
    IN  CASE b0 < 128 -> 1
          [] b0 >= 194 /\ b0 <= 223 /\ IsCont(c(1)) -> 2
          [] b0 = 224 /\ c(1) >= 160 /\ c(1) <= 191 /\ IsCont(c(2)) -> 3
          [] b0 \in (225..236) \cup {238, 239} /\ IsCont(c(1)) /\ IsCont(c(2)) -> 3
          [] b0 = 237 /\ c(1) >= 128 /\ c(1) <= 159 /\ IsCont(c(2)) -> 3
          [] b0 = 240 /\ c(1) >= 144 /\ c(1) <= 191 /\ IsCont(c(2)) /\ IsCont(c(3)) -> 4
          [] b0 \in 241..243 /\ IsCont(c(1)) /\ IsCont(c(2)) /\ IsCont(c(3)) -> 4
          [] b0 = 244 /\ c(1) >= 128 /\ c(1) <= 143 /\ IsCont(c(2)) /\ IsCont(c(3)) -> 4
          [] OTHER -> 0

\* the code point of the well-formed sequence of length k at b[i]
Utf8CodePoint(b, i, k) ==
    CASE k = 1 -> b[i]
      [] k = 2 -> (b[i] - 192) * 64 + (b[i + 1] - 128)
      [] k = 3 -> (b[i] - 224) * 4096 + (b[i + 1] - 128) * 64 + (b[i + 2] - 128)
      [] OTHER -> (b[i] - 240) * 262144 + (b[i + 1] - 128) * 4096
                      + (b[i + 2] - 128) * 64 + (b[i + 3] - 128)

\* b.decode('utf-8'): the str, or the UnicodeDecodeError it raises. The bytes
\* are well formed when the first is no continuation byte and every byte that
\* is none starts a well-formed sequence that ends where the next one starts.
decode_utf8(b) ==
    LET n == Len(b)
        IsStart(i) == ~IsCont(b[i])
        starts == SelectSeq([i \in 1..n |-> i], IsStart)
        WellFormed ==
            /\ n > 0 => IsStart(1)
            /\ \A i \in 1..n : IsStart(i) =>
                  LET k == Utf8SeqLen(b, i)
                  IN  k > 0 /\ (i + k <= n => IsStart(i + k))
    IN  IF ~WellFormed
        THEN Exc("UnicodeDecodeError", S("'utf-8' codec can't decode byte"))
        ELSE PyStr([j \in 1..Len(starts) |->
                      Utf8CodePoint(b, starts[j], Utf8SeqLen(b, starts[j]))])

\* b.decode('ascii'): the str, or the UnicodeDecodeError it raises
decode_ascii(b) ==
    IF \E i \in 1..Len(b) : b[i] >= 128
    THEN LET i == CHOOSE i \in 1..Len(b) : b[i] >= 128 /\ \A j \in 1..(i - 1) : b[j] < 128
         IN  Exc("UnicodeDecodeError",
                 S("'ascii' codec can't decode byte 0x")
                   \o <<HexDigit(b[i] \div 16), HexDigit(b[i] % 16)>>
                   \o S(" in position ") \o IntStr(i - 1)
                   \o S(": ordinal not in range(128)"))
    ELSE PyStr(b)

(***************************************************************************)
(* base64.b64encode, base64.b64decode (validate=False: binascii.a2b_base64 *)
(* skips the characters outside the alphabet)                              *)
(***************************************************************************)
B64Alphabet == S("ABCDEFGHIJKLMNOPQRSTUVWXYZabcdefghijklmnopqrstuvwxyz0123456789+/")
B64Pad == 61

\* b64encode(b): 4 characters for every 3 bytes, the last group padded with "="
b64encode(b) ==
    LET n == Len(b)
        at(i) == IF i <= n THEN b[i] ELSE 0
    IN  [j \in 1..(4 * ((n + 2) \div 3)) |->
            LET g == (j - 1) \div 4
                k == (j - 1) % 4
                b0 == at(3 * g + 1)
                b1 == at(3 * g + 2)
                b2 == at(3 * g + 3)
            IN  CASE k = 0 -> B64Alphabet[(b0 \div 4) + 1]
                  [] k = 1 -> B64Alphabet[(b0 % 4) * 16 + (b1 \div 16) + 1]
                  [] k = 2 -> IF 3 * g + 2 > n THEN B64Pad
                              ELSE B64Alphabet[(b1 % 16) * 4 + (b2 \div 64) + 1]
                  [] OTHER -> IF 3 * g + 3 > n THEN B64Pad
                              ELSE B64Alphabet[(b2 % 64) + 1]]

\* table_a2b_base64: the 6-bit value of a character, 64 for any other character
B64Value(c) ==
    CASE c >= 65 /\ c <= 90 -> c - 65
      [] c >= 97 /\ c <= 122 -> c - 71
      [] c >= 48 /\ c <= 57 -> c + 4
      [] c = 43 -> 62
      [] c = 47 -> 63
      [] OTHER -> 64

\* the characters a2b_base64 reads: the alphabet and the pad; it skips the rest
IsB64Char(c) == c = B64Pad \/ B64Value(c) < 64
IsB64Data(c) == B64Value(c) < 64

\* binascii.a2b_base64(s), non-strict. The loop keeps quad_pos (the data
\* characters read so far, modulo 4) and pads (the pads read since the last
\* data character while quad_pos >= 2), and stops reading at the pad that makes
\* quad_pos + pads >= 4: the first pad after 4k+3 data characters, the second
\* of two pads after 4k+2. The data characters read give 3 bytes for every 4,
\* then 1 byte for 2 left over and 2 bytes for 3 left over. Unless a pad
\* stopped the loop, left-over characters raise binascii.Error.
b64decode(s) ==
    LET chars == SelectSeq(s, IsB64Char)
        DataBefore(p) == Len(SelectSeq(SubSeq(chars, 1, p - 1), IsB64Data))
        stops == { p \in 1..Len(chars) :
                     /\ chars[p] = B64Pad
                     /\ \/ DataBefore(p) % 4 = 3
                        \/ DataBefore(p) % 4 = 2 /\ chars[p - 1] = B64Pad }
        done == stops # {}
        stop == CHOOSE p \in stops : \A q \in stops : p <= q
        read == SelectSeq(IF done THEN SubSeq(chars, 1, stop - 1) ELSE chars, IsB64Data)
        n == Len(read)
        v(k) == B64Value(read[k])
        out == [j \in 1..(3 * (n \div 4) + (IF n % 4 >= 2 THEN (n % 4) - 1 ELSE 0)) |->
                  LET g == 4 * ((j - 1) \div 3)
                  IN  CASE (j - 1) % 3 = 0 -> v(g + 1) * 4 + (v(g + 2) \div 16)
                        [] (j - 1) % 3 = 1 -> (v(g + 2) % 16) * 16 + (v(g + 3) \div 4)
                        [] OTHER -> (v(g + 3) % 4) * 64 + v(g + 4)]
    IN  IF done \/ n % 4 = 0 THEN PyBytes(out)
        ELSE IF n % 4 = 1
        THEN Exc("binascii.Error",
                 S("Invalid base64-encoded string: number of data characters (")
                   \o IntStr(n) \o S(") cannot be 1 more than a multiple of 4"))
        ELSE Exc("binascii.Error", S("Incorrect padding"))

(***************************************************************************)
(* json.loads (the C scanner: JSON text, plus NaN, Infinity, -Infinity)    *)
(***************************************************************************)
\* s[i], or -1 beyond the text
At(s, i) == IF i >= 1 /\ i <= Len(s) THEN s[i] ELSE -1

\* s[i:].startswith(lit)
Matches(s, i, lit) ==
    i + Len(lit) - 1 <= Len(s) /\ SubSeq(s, i, i + Len(lit) - 1) = lit

RECURSIVE SkipWs(_, _)
\* WHITESPACE.match(s, i).end()
SkipWs(s, i) == IF At(s, i) \in {32, 9, 10, 13} THEN SkipWs(s, i + 1) ELSE i

IsDigit(c) == c >= 48 /\ c <= 57

RECURSIVE DigitsEnd(_, _)
\* the index after the run of digits that starts at i
DigitsEnd(s, i) == IF IsDigit(At(s, i)) THEN DigitsEnd(s, i + 1) ELSE i

RECURSIVE IntOf(_)
\* int(digits)
IntOf(digits) ==
    IF digits = <<>> THEN 0
    ELSE 10 * IntOf(SubSeq(digits, 1, Len(digits) - 1)) + (digits[Len(digits)] - 48)

HexVal(c) ==
    CASE IsDigit(c) -> c - 48
      [] c >= 97 /\ c <= 102 -> c - 87
      [] c >= 65 /\ c <= 70 -> c - 55
      [] OTHER -> -1

\* the value of the 4 hexadecimal digits at i, or -1
Hex4(s, i) ==
    IF \E k \in 0..3 : HexVal(At(s, i + k)) < 0 THEN -1
    ELSE HexVal(s[i]) * 4096 + HexVal(s[i + 1]) * 256 + HexVal(s[i + 2]) * 16 + HexVal(s[i + 3])

\* a scanner's result: the value and the index after it, or a failure
ScanFail == [ok |-> FALSE, v |-> PyNone, i |-> 0]
ScanOk(v, i) == [ok |-> TRUE, v |-> v, i |-> i]

\* the character of a one-letter escape, or -1
SimpleEscape(c) ==
    CASE c = 34 -> 34
      [] c = 92 -> 92
      [] c = 47 -> 47
      [] c = 98 -> 8
      [] c = 102 -> 12
      [] c = 110 -> 10
      [] c = 114 -> 13
      [] c = 116 -> 9
      [] OTHER -> -1

RECURSIVE ScanChars(_, _, _)
\* scanstring (strict): i is after the opening quote, acc the characters so far
ScanChars(s, i, acc) ==
    LET c == At(s, i)
    IN  CASE c = -1 -> ScanFail
          [] c = 34 -> ScanOk(PyStr(acc), i + 1)
          [] c >= 0 /\ c <= 31 -> ScanFail
          [] c = 92 ->
                LET e == At(s, i + 1)
                IN  IF e = 117
                    THEN LET u == Hex4(s, i + 2)
                             u2 == IF At(s, i + 6) = 92 /\ At(s, i + 7) = 117
                                   THEN Hex4(s, i + 8) ELSE -1
                         IN  IF u < 0 THEN ScanFail
                             ELSE IF u >= 55296 /\ u <= 56319 /\ u2 >= 56320 /\ u2 <= 57343
                             THEN ScanChars(s, i + 12,
                                    Append(acc, 65536 + (u - 55296) * 1024 + (u2 - 56320)))
                             ELSE ScanChars(s, i + 6, Append(acc, u))
                    ELSE IF SimpleEscape(e) < 0 THEN ScanFail
                    ELSE ScanChars(s, i + 2, Append(acc, SimpleEscape(e)))
          [] OTHER -> ScanChars(s, i + 1, Append(acc, c))

\* _match_number: the int or float at i
ScanNumber(s, i) ==
    LET j0 == IF At(s, i) = 45 THEN i + 1 ELSE i
        j1 == IF At(s, j0) >= 49 /\ At(s, j0) <= 57 THEN DigitsEnd(s, j0 + 1)
              ELSE IF At(s, j0) = 48 THEN j0 + 1 ELSE 0
        j2 == IF At(s, j1) = 46 /\ IsDigit(At(s, j1 + 1)) THEN DigitsEnd(s, j1 + 2) ELSE j1
        k == IF At(s, j2 + 1) \in {43, 45} THEN j2 + 2 ELSE j2 + 1
        j3 == IF At(s, j2) \in {101, 69} /\ IsDigit(At(s, k)) THEN DigitsEnd(s, k + 1) ELSE j2
    IN  IF j1 = 0 THEN ScanFail
        ELSE IF j3 > j1 THEN ScanOk(PyFloat(SubSeq(s, i, j3 - 1)), j3)
        ELSE ScanOk(PyInt((IF j0 > i THEN -1 ELSE 1) * IntOf(SubSeq(s, j0, j1 - 1))), j1)

RECURSIVE ScanOnce(_, _), ParseMembers(_, _, _), ParseElements(_, _, _)
\* scan_once: the value that starts at i
ScanOnce(s, i) ==
    LET c == At(s, i)
    IN  CASE c = 34 -> ScanChars(s, i + 1, <<>>)
          [] c = 123 ->
                LET j == SkipWs(s, i + 1)
                IN  IF At(s, j) = 125 THEN ScanOk(PyDict(<<>>), j + 1)
                    ELSE ParseMembers(s, j, PyDict(<<>>))
          [] c = 91 ->
                LET j == SkipWs(s, i + 1)
                IN  IF At(s, j) = 93 THEN ScanOk(PyList(<<>>), j + 1)
                    ELSE ParseElements(s, j, PyList(<<>>))
          [] c = 110 /\ Matches(s, i, S("null")) -> ScanOk(PyNone, i + 4)
          [] c = 116 /\ Matches(s, i, S("true")) -> ScanOk(PyTrue, i + 4)
          [] c = 102 /\ Matches(s, i, S("false")) -> ScanOk(PyFalse, i + 5)
          [] c = 78 /\ Matches(s, i, S("NaN")) -> ScanOk(PyFloat(S("NaN")), i + 3)
          [] c = 73 /\ Matches(s, i, S("Infinity")) -> ScanOk(PyFloat(S("Infinity")), i + 8)
          [] c = 45 /\ Matches(s, i, S("-Infinity")) -> ScanOk(PyFloat(S("-Infinity")), i + 9)
          [] OTHER -> ScanNumber(s, i)

\* _parse_object: the members from the key expected at j on
ParseMembers(s, j, acc) ==
    IF At(s, j) # 34 THEN ScanFail
    ELSE LET key == ScanChars(s, j + 1, <<>>)
         IN  IF ~key.ok THEN ScanFail
             ELSE LET c == SkipWs(s, key.i)
                  IN  IF At(s, c) # 58 THEN ScanFail
                      ELSE LET v == ScanOnce(s, SkipWs(s, c + 1))
                           IN  IF ~v.ok THEN ScanFail
                               ELSE LET e == SkipWs(s, v.i)
                                        acc2 == DictSet(acc, key.v.a, v.v)
                                    IN  IF At(s, e) = 125 THEN ScanOk(acc2, e + 1)
                                        ELSE IF At(s, e) # 44 THEN ScanFail
                                        ELSE ParseMembers(s, SkipWs(s, e + 1), acc2)

\* _parse_array: the elements from the value expected at j on
ParseElements(s, j, acc) ==
    LET v == ScanOnce(s, j)
    IN  IF ~v.ok THEN ScanFail
        ELSE LET e == SkipWs(s, v.i)
                 acc2 == [acc EXCEPT !.kv = Append(acc.kv, <<<<>>, v.v>>)]
             IN  IF At(s, e) = 93 THEN ScanOk(acc2, e + 1)
                 ELSE IF At(s, e) # 44 THEN ScanFail
                 ELSE ParseElements(s, SkipWs(s, e + 1), acc2)

\* json.loads(s): the value, or the JSONDecodeError it raises
json_loads(s) ==
    LET r == ScanOnce(s, SkipWs(s, 1))
    IN  IF At(s, 1) = 65279
        THEN Exc("JSONDecodeError", S("Unexpected UTF-8 BOM (decode using utf-8-sig)"))
        ELSE IF ~r.ok THEN Exc("JSONDecodeError", S("Expecting value"))
        ELSE IF SkipWs(s, r.i) # Len(s) + 1 THEN Exc("JSONDecodeError", S("Extra data"))
        ELSE r.v

(***************************************************************************)
(* protocol/sysex.py                                                       *)
(***************************************************************************)
SYSEX_START == 240
SYSEX_END == 247
MANUFACTURER_ID == 125
ORIGIN_CLIENT == 0
ORIGIN_SERVER == 1
MSG_TYPE_COMMAND == 1
MSG_TYPE_RESPONSE == 2
STATUS_OK == 0
STATUS_ERROR == 1
MAX_PAYLOAD_BYTES == 1800

RECURSIVE HexDigits(_)
HexDigits(n) ==
    IF n < 16 THEN <<HexDigit(n)>> ELSE HexDigits(n \div 16) \o <<HexDigit(n % 16)>>

\* hex(n) for n >= 0
HexStr(n) == S("0x") \o HexDigits(n)

\* {'client_id': client_id, 'error': message}
ParseError(client_id, message) ==
    PyDict(<< <<S("client_id"), PyInt(client_id)>>, <<S("error"), PyStr(message)>> >>)

\* lines 138-147: ASCII-decode, base64-decode and UTF-8-decode the payload;
\* the str, or the first exception raised
DecodePayload(payload_bytes) ==
    LET payload_str == decode_ascii(payload_bytes)
        json_bytes == b64decode(payload_str.a)
        json_str == decode_utf8(json_bytes.a)
    IN  IF IsExc(payload_str) THEN payload_str
        ELSE IF IsExc(json_bytes) THEN json_bytes
        ELSE json_str

\* the except clause without a return: the exception leaves the function
DecodeFailed_propagates(client_id, e) == e

\* lines 143-147: except Exception as e around the three decoding steps
DecodeFailed(client_id, e) ==
    ParseError(client_id, S("Base64 decode failed: ") \o e.a)

\* lines 129-174: the payload of a frame whose header passed
ParsePayload(client_id, payload_bytes) ==
    LET json_str == DecodePayload(payload_bytes)
        command == json_loads(json_str.a)
    IN  IF Len(payload_bytes) = 0
        THEN ParseError(client_id, S("Empty payload"))
        ELSE IF IsExc(json_str)
        THEN DecodeFailed(client_id, json_str)
        ELSE IF command.t = "JSONDecodeError"
        THEN ParseError(client_id, S("JSON parse failed: ") \o command.a)
        ELSE IF IsExc(command)
        THEN ParseError(0, S("Parse error: ") \o command.a)
        ELSE IF ~IsDict(command)
        THEN ParseError(client_id, S("Command must be a JSON object"))
        ELSE IF ~DictHas(command, S("action"))
        THEN ParseError(client_id, S("Command missing required \"action\" field"))
        ELSE PyDict(<< <<S("client_id"), PyInt(client_id)>>, <<S("command"), command>> >>)

\* the continuation check moved before the origin check
ParseHeader_continuation_first(data) ==
    LET origin == data[3]
        client_id == data[4]
        continuation == data[5]
        msg_type == data[6]
    IN  IF continuation # 0
        THEN ParseError(client_id, S("Continuation messages not yet supported"))
        ELSE IF origin # ORIGIN_CLIENT
        THEN ParseError(client_id, S("Expected origin=client (0x00), got ") \o HexStr(origin))
        ELSE IF msg_type # MSG_TYPE_COMMAND
        THEN ParseError(client_id,
                        S("Expected msg_type=command (0x01), got ") \o HexStr(msg_type))
        ELSE ParsePayload(client_id, SubSeq(data, 8, Len(data) - 1))

\* lines 101-127: the header fields of a frame whose framing passed
ParseHeader(data) ==
    LET origin == data[3]
        client_id == data[4]
        continuation == data[5]
        msg_type == data[6]
    IN  IF origin # ORIGIN_CLIENT
        THEN ParseError(client_id, S("Expected origin=client (0x00), got ") \o HexStr(origin))
        ELSE IF msg_type # MSG_TYPE_COMMAND
        THEN ParseError(client_id,
                        S("Expected msg_type=command (0x01), got ") \o HexStr(msg_type))
        ELSE IF continuation # 0
        THEN ParseError(client_id, S("Continuation messages not yet supported"))
        ELSE ParsePayload(client_id, SubSeq(data, 8, Len(data) - 1))

\* parse_sysex(data) for a bytes object data
parse_sysex(data) ==
    IF Len(data) < 8 THEN ParseError(0, S("Message too short"))
    ELSE IF data[1] # SYSEX_START
    THEN ParseError(0, S("Missing SysEx start byte (0xF0)"))
    ELSE IF data[Len(data)] # SYSEX_END
    THEN ParseError(0, S("Missing SysEx end byte (0xF7)"))
    ELSE IF data[2] # MANUFACTURER_ID
    THEN ParseError(0, S("Wrong manufacturer ID: ") \o HexStr(data[2]))
    ELSE ParseHeader(data)

\* the client id put in the frame without the mask
And7F_unmasked(client_id) ==
    IF client_id.t \in {"int", "bool"} THEN PyInt(client_id.a[1])
    ELSE Exc("TypeError", S("unsupported operand type(s) for &: '")
                            \o TypeName(client_id) \o S("' and 'int'"))

\* client_id & 0x7F: the int, or the TypeError of an operand that is no int
And7F(client_id) ==
    IF client_id.t \in {"int", "bool"} THEN PyInt(client_id.a[1] % 128)
    ELSE Exc("TypeError", S("unsupported operand type(s) for &: '")
                            \o TypeName(client_id) \o S("' and 'int'"))

\* the frame without the closing SYSEX_END
Frame_unterminated(origin, id, continuation, msg_type, status, payload) ==
    <<SYSEX_START, MANUFACTURER_ID, origin, id, continuation, msg_type, status>>
        \o payload

\* the frame [F0, 7D, origin, id, continuation, msg_type, status, *payload, F7]
Frame(origin, id, continuation, msg_type, status, payload) ==
    <<SYSEX_START, MANUFACTURER_ID, origin, id, continuation, msg_type, status>>
        \o payload \o <<SYSEX_END>>

\* [ord(c) for c in base64.b64encode(json_str.encode('utf-8')).decode('ascii')]
B64Text(json_str) == b64encode(encode_utf8(json_str))

\* no except clause: the exception of the encoding leaves the builder
ErrorFrame_reraises(client_id, e) == e

\* lines 225-241 and 304-320: the minimal error frame for the exception e; the
\* handler raises in its turn when client_id & 0x7F does
ErrorFrame(client_id, e) ==
    LET error_json == json_dumps(PyDict(<< <<S("success"), PyFalse>>,
                                           <<S("error"), PyStr(e.a)>> >>))
        id == And7F(client_id)
    IN  IF IsExc(id) THEN id
        ELSE PyBytes(Frame(ORIGIN_SERVER, id.a[1], 0, MSG_TYPE_RESPONSE, STATUS_ERROR,
                           B64Text(error_json.a)))

\* build_sysex_response(client_id, response, success): the frame, or the
\* exception that leaves the function
build_sysex_response(client_id, response, success) ==
    LET json_str == json_dumps(response)
        id == And7F(client_id)
    IN  IF IsExc(json_str) THEN ErrorFrame(client_id, json_str)
        ELSE IF IsExc(id) THEN ErrorFrame(client_id, id)
        ELSE PyBytes(Frame(ORIGIN_SERVER, id.a[1], 0, MSG_TYPE_RESPONSE,
                           IF Truthy(success) THEN STATUS_OK ELSE STATUS_ERROR,
                           B64Text(json_str.a)))

\* is_last computed with > in place of >=
Chunks_strict_last(id, status_byte, base64_str) ==
    LET n == Len(base64_str)
    IN  [k \in 1..((n + MAX_PAYLOAD_BYTES - 1) \div MAX_PAYLOAD_BYTES) |->
            LET i == (k - 1) * MAX_PAYLOAD_BYTES
                chunk_payload == SubSeq(base64_str, i + 1,
                                        IF i + MAX_PAYLOAD_BYTES < n
                                        THEN i + MAX_PAYLOAD_BYTES ELSE n)
                is_last == (i + MAX_PAYLOAD_BYTES > n)
                continuation == IF is_last THEN 0 ELSE 1
            IN  PyBytes(Frame(ORIGIN_SERVER, id, continuation, MSG_TYPE_RESPONSE,
                              status_byte, chunk_payload))]

\* the slice taken as base64_str[i:i + MAX_PAYLOAD_BYTES - 1]
Chunks_short_slice(id, status_byte, base64_str) ==
    LET n == Len(base64_str)
    IN  [k \in 1..((n + MAX_PAYLOAD_BYTES - 1) \div MAX_PAYLOAD_BYTES) |->
            LET i == (k - 1) * MAX_PAYLOAD_BYTES
                chunk_payload == SubSeq(base64_str, i + 1,
                                        IF i + MAX_PAYLOAD_BYTES - 1 < n
                                        THEN i + MAX_PAYLOAD_BYTES - 1 ELSE n)
                is_last == (i + MAX_PAYLOAD_BYTES >= n)
                continuation == IF is_last THEN 0 ELSE 1
            IN  PyBytes(Frame(ORIGIN_SERVER, id, continuation, MSG_TYPE_RESPONSE,
                              status_byte, chunk_payload))]

\* lines 283-300: one frame for every MAX_PAYLOAD_BYTES characters of base64_str
Chunks(id, status_byte, base64_str) ==
    LET n == Len(base64_str)
    IN  [k \in 1..((n + MAX_PAYLOAD_BYTES - 1) \div MAX_PAYLOAD_BYTES) |->
            LET i == (k - 1) * MAX_PAYLOAD_BYTES
                chunk_payload == SubSeq(base64_str, i + 1,
                                        IF i + MAX_PAYLOAD_BYTES < n
                                        THEN i + MAX_PAYLOAD_BYTES ELSE n)
                is_last == (i + MAX_PAYLOAD_BYTES >= n)
                continuation == IF is_last THEN 0 ELSE 1
            IN  PyBytes(Frame(ORIGIN_SERVER, id, continuation, MSG_TYPE_RESPONSE,
                              status_byte, chunk_payload))]

\* build_chunked_sysex_response(client_id, response, success): the list of
\* frames, or the exception that leaves the function
build_chunked_sysex_response(client_id, response, success) ==
    LET json_str == json_dumps(response)
        id == And7F(client_id)
        status_byte == IF Truthy(success) THEN STATUS_OK ELSE STATUS_ERROR
        fallback(e) == LET f == ErrorFrame(client_id, e)
                       IN  IF IsExc(f) THEN f ELSE PyList(<<f>>)
    IN  IF IsExc(json_str) THEN fallback(json_str)
        ELSE IF IsExc(id) THEN fallback(id)
        ELSE PyList(Chunks(id.a[1], status_byte, B64Text(json_str.a)))

\* 'params': params in place of 'params': params or {}
build_sysex_command_no_default(client_id, action, params) ==
    LET command == PyDict(<< <<S("action"), action>>, <<S("params"), params>> >>)
        json_str == json_dumps(command)
        id == And7F(client_id)
    IN  IF IsExc(json_str) THEN json_str
        ELSE IF IsExc(id) THEN id
        ELSE PyBytes(Frame(ORIGIN_CLIENT, id.a[1], 0, MSG_TYPE_COMMAND, STATUS_OK,
                           B64Text(json_str.a)))

\* build_sysex_command(client_id, action, params): the frame, or the exception
\* that leaves the function (there is no try)
build_sysex_command(client_id, action, params) ==
    LET command == PyDict(<< <<S("action"), action>>,
                             <<S("params"), IF Truthy(params) THEN params ELSE PyDict(<<>>)>> >>)
        json_str == json_dumps(command)
        id == And7F(client_id)
    IN  IF IsExc(json_str) THEN json_str
        ELSE IF IsExc(id) THEN id
        ELSE PyBytes(Frame(ORIGIN_CLIENT, id.a[1], 0, MSG_TYPE_COMMAND, STATUS_OK,
                           B64Text(json_str.a)))

(***************************************************************************)
(* protocol/commands.py                                                    *)
(*                                                                         *)
(* The registry _handlers is a dict in insertion order whose values are    *)
(* functions. A function is a value with t = "function" and its name in a; *)
(* the functions a caller registers are "returns", which returns the value *)
(* under "value", and "raises", which raises the exception under "value".  *)
(***************************************************************************)
Function(name) == [t |-> "function", a |-> S(name), kv |-> <<>>]
Returns(v) == [t |-> "function", a |-> S("returns"), kv |-> << <<S("value"), v>> >>]
Raises(e) == [t |-> "function", a |-> S("raises"), kv |-> << <<S("value"), e>> >>]

\* what time.time() returns
TimeNow == PyFloat(S("1762128000.25"))

\* list(d.keys()) as a list of str
KeysList(d) == PyList([i \in 1..Len(d.kv) |-> PyStr(d.kv[i][1])])

\* the registry with the liveness probe only
BuiltinHandlers_ping_only ==
    PyDict(<< <<S("system.ping"), Function("_handle_ping")>> >>)

\* lines 260-262: the registry once the module is imported
BuiltinHandlers ==
    PyDict(<< <<S("system.ping"), Function("_handle_ping")>>,
              <<S("system.list_handlers"), Function("_handle_list_handlers")>>,
              <<S("system.echo"), Function("_handle_echo")>> >>)

\* a registration that keeps the handler an action already has
register_handler_first_wins(registry, action, handler) ==
    IF DictHas(registry, action) THEN registry ELSE DictSet(registry, action, handler)

\* register_handler(action, handler): _handlers[action] = handler
register_handler(registry, action, handler) == DictSet(registry, action, handler)

\* del d[key]
DictDel(d, key) ==
    [d EXCEPT !.kv = SelectSeq(d.kv, LAMBDA item : item[1] # key)]

\* the handler is removed if present and True is returned in either case
unregister_handler_always_true(registry, action) ==
    [registry |-> DictDel(registry, action), ret |-> PyTrue]

\* unregister_handler(action): the registry afterwards, and what is returned
unregister_handler(registry, action) ==
    IF DictHas(registry, action)
    THEN [registry |-> DictDel(registry, action), ret |-> PyTrue]
    ELSE [registry |-> registry, ret |-> PyFalse]

\* list_handlers()
list_handlers(registry) == KeysList(registry)

\* handlers/transport.py handle_transport_stop: the module global transport
\* is None where "import transport" failed
handle_transport_stop(handler, params) ==
    IF DictAt(handler, S("transport")) = PyNone
    THEN PyDict(<< <<S("success"), PyFalse>>,
                   <<S("error"), PyStr(S("Transport module not available"))>> >>)
    ELSE PyDict(<< <<S("success"), PyTrue>>, <<S("playing"), PyFalse>> >>)

\* handler(params): the value returned, or the exception raised
CallHandler(registry, handler, params) ==
    CASE handler.a = S("_handle_ping") ->
            PyDict(<< <<S("success"), PyTrue>>, <<S("pong"), PyTrue>>,
                      <<S("timestamp"), TimeNow>> >>)
      [] handler.a = S("_handle_list_handlers") ->
            PyDict(<< <<S("success"), PyTrue>>,
                      <<S("handlers"), list_handlers(registry)>> >>)
      [] handler.a = S("_handle_echo") ->
            PyDict(<< <<S("success"), PyTrue>>, <<S("echo"), params>> >>)
      [] handler.a = S("handle_transport_stop") -> handle_transport_stop(handler, params)
      [] OTHER -> DictAt(handler, S("value"))

\* str(v) for the values that can be a dict key
StrOf(v) ==
    CASE v.t = "str" -> v.a
      [] v.t = "int" -> IntStr(v.a[1])
      [] v.t = "bool" -> IF v.a[1] = 1 THEN S("True") ELSE S("False")
      [] v.t = "None" -> S("None")
      [] OTHER -> v.a

\* 'error' in parsed: the bool, or the TypeError of a value that is no container
ContainsError(parsed) ==
    CASE parsed.t = "dict" -> PyBool(DictHas(parsed, S("error")))
      [] parsed.t = "list" ->
            PyBool(\E i \in 1..Len(parsed.kv) : parsed.kv[i][2] = PyStr(S("error")))
      [] parsed.t = "str" ->
            PyBool(\E i \in 1..Len(parsed.a) : Matches(parsed.a, i, S("error")))
      [] OTHER ->
            Exc("TypeError", S("argument of type '") \o TypeName(parsed)
                               \o S("' is not iterable"))

\* v['error'] for a value that passed 'error' in v
ItemError(v) ==
    CASE v.t = "dict" -> DictAt(v, S("error"))
      [] v.t = "list" ->
            Exc("TypeError", S("list indices must be integers or slices, not str"))
      [] OTHER -> Exc("TypeError", S("string indices must be integers, not 'str'"))

\* v.get(key, default): the value, or the AttributeError of a value that is no dict
GetOr(v, key, default) ==
    IF IsDict(v) THEN DictGet(v, key, default)
    ELSE Exc("AttributeError", S("'") \o TypeName(v) \o S("' object has no attribute 'get'"))

\* a lookup that falls back on the first registered handler
LookUp_fallback(registry, action) ==
    IF action.t \in {"list", "dict"}
    THEN Exc("TypeError", S("unhashable type: '") \o TypeName(action) \o S("'"))
    ELSE IF IsStr(action) /\ DictHas(registry, action.a) THEN DictAt(registry, action.a)
    ELSE IF registry.kv # <<>> THEN registry.kv[1][2]
    ELSE PyNone

\* _handlers.get(action): the handler, PyNone, or the TypeError of an
\* unhashable key
LookUp(registry, action) ==
    IF action.t \in {"list", "dict"}
    THEN Exc("TypeError", S("unhashable type: '") \o TypeName(action) \o S("'"))
    ELSE IF IsStr(action) /\ DictHas(registry, action.a) THEN DictAt(registry, action.a)
    ELSE PyNone

\* lines 165-169: no handler is registered for action
UnknownAction(action) ==
    PyDict(<< <<S("success"), PyFalse>>,
              <<S("error"), PyStr(S("Unknown action: ") \o StrOf(action))>> >>)

\* get_handler(action)
get_handler(registry, action) == LookUp(registry, action)

\* no except clause: the exception leaves execute_command
HandlerError_propagates(e) == e

\* lines 186-191: except Exception as e
HandlerError(e) ==
    PyDict(<< <<S("success"), PyFalse>>, <<S("error"), PyStr(S("Handler error: ") \o e.a)>> >>)

\* a mapping returned as it is, without the success key added
Normalize_no_inject(result) ==
    IF IsDict(result) THEN result
    ELSE PyDict(<< <<S("success"), PyTrue>>, <<S("result"), result>> >>)

\* lines 174-184: the result of the handler made an envelope
Normalize(result) ==
    IF IsDict(result)
    THEN IF ~DictHas(result, S("success")) THEN DictSet(result, S("success"), PyTrue)
         ELSE result
    ELSE PyDict(<< <<S("success"), PyTrue>>, <<S("result"), result>> >>)

\* execute_command without the check "if not action" of lines 155-160
execute_command_unchecked_action(registry, parsed) ==
    LET has_error == ContainsError(parsed)
        command == GetOr(parsed, S("command"), PyDict(<<>>))
        action == GetOr(command, S("action"), PyNone)
        params == GetOr(command, S("params"), PyDict(<<>>))
        handler == LookUp(registry, action)
        result == CallHandler(registry, handler, params)
        none == <<>>
    IN  IF IsExc(has_error) THEN [ret |-> HandlerError(has_error), called |-> none]
        ELSE IF Truthy(has_error)
        THEN IF IsExc(ItemError(parsed))
             THEN [ret |-> HandlerError(ItemError(parsed)), called |-> none]
             ELSE [ret |-> PyDict(<< <<S("success"), PyFalse>>,
                                     <<S("error"), ItemError(parsed)>> >>),
                   called |-> none]
        ELSE IF IsExc(command) THEN [ret |-> HandlerError(command), called |-> none]
        ELSE IF IsExc(action) THEN [ret |-> HandlerError(action), called |-> none]
        ELSE IF IsExc(handler) THEN [ret |-> HandlerError(handler), called |-> none]
        ELSE IF handler = PyNone
        THEN [ret |-> UnknownAction(action), called |-> none]
        ELSE IF IsExc(result)
        THEN [ret |-> HandlerError(result), called |-> <<handler>>]
        ELSE [ret |-> Normalize(result), called |-> <<handler>>]

\* execute_command(parsed): [ret, called]: the value returned (or the
\* exception that leaves the function) and the handlers invoked, in order
execute_command(registry, parsed) ==
    LET has_error == ContainsError(parsed)
        command == GetOr(parsed, S("command"), PyDict(<<>>))
        action == GetOr(command, S("action"), PyNone)
        params == GetOr(command, S("params"), PyDict(<<>>))
        handler == LookUp(registry, action)
        result == CallHandler(registry, handler, params)
        none == <<>>
    IN  IF IsExc(has_error) THEN [ret |-> HandlerError(has_error), called |-> none]
        ELSE IF Truthy(has_error)
        THEN IF IsExc(ItemError(parsed))
             THEN [ret |-> HandlerError(ItemError(parsed)), called |-> none]
             ELSE [ret |-> PyDict(<< <<S("success"), PyFalse>>,
                                     <<S("error"), ItemError(parsed)>> >>),
                   called |-> none]
        ELSE IF IsExc(command) THEN [ret |-> HandlerError(command), called |-> none]
        ELSE IF IsExc(action) THEN [ret |-> HandlerError(action), called |-> none]
        ELSE IF ~Truthy(action)
        THEN [ret |-> PyDict(<< <<S("success"), PyFalse>>,
                                <<S("error"), PyStr(S("No action specified in command"))>> >>),
              called |-> none]
        ELSE IF IsExc(handler) THEN [ret |-> HandlerError(handler), called |-> none]
        ELSE IF handler = PyNone
        THEN [ret |-> UnknownAction(action), called |-> none]
        ELSE IF IsExc(result)
        THEN [ret |-> HandlerError(result), called |-> <<handler>>]
        ELSE [ret |-> Normalize(result), called |-> <<handler>>]

(***************************************************************************)
(* device_FLBridge.py                                                      *)
(*                                                                         *)
(* A record of _response_queue is [id, client_id, response, success]; id   *)
(* numbers the records in the order of their creation and stands for the   *)
(* identity of the dict object.                                            *)
(***************************************************************************)
\* an attribute the event object does not have
Absent == [t |-> "absent", a |-> <<>>, kv |-> <<>>]

\* bytes(v) of a list of integers: the bytes, or the ValueError
ToBytes(v) ==
    IF \A i \in 1..Len(v.a) : v.a[i] \in 0..255 THEN PyBytes(v.a)
    ELSE Exc("ValueError", S("bytes must be in range(0, 256)"))

\* _response_queue.append({...}) of the n-th record created
Enqueue(queue, n, client_id, response, success) ==
    Append(queue, [id |-> n, client_id |-> client_id, response |-> response,
                   success |-> success])

\* _response_queue.pop() in place of pop(0): the newest record is taken
pop0_newest(queue) ==
    [item |-> queue[Len(queue)], rest |-> SubSeq(queue, 1, Len(queue) - 1)]

\* the queue emptied with the head taken: every record is drained in one tick
pop0_all(queue) == [item |-> Head(queue), rest |-> <<>>]

\* line 309: response_data = _response_queue.pop(0)
pop0(queue) == [item |-> Head(queue), rest |-> Tail(queue)]

\* lines 201-210: the data of the event, PyNone where it has none
SysexData(event) ==
    LET sysex_data == IF event.sysex # Absent THEN event.sysex ELSE PyNone
    IN  IF sysex_data = PyNone /\ event.data # Absent THEN event.data ELSE sysex_data

\* lines 273-287: the record queued for an exception e caught in OnSysEx
CaughtRecord(e) ==
    [client_id |-> PyInt(0),
     response |-> PyDict(<< <<S("success"), PyFalse>>, <<S("error"), PyStr(e.a)>> >>),
     success |-> PyFalse]

\* the record queued with client id 0 whatever parse_sysex recovered
ParseErrorRecord_unrouted(parsed) ==
    [client_id |-> PyInt(0),
     response |-> PyDict(<< <<S("success"), PyFalse>>,
                            <<S("error"), DictAt(parsed, S("error"))>> >>),
     success |-> PyFalse]

\* lines 234-247: the record queued for a frame parse_sysex rejects
ParseErrorRecord(parsed) ==
    [client_id |-> DictGet(parsed, S("client_id"), PyInt(0)),
     response |-> PyDict(<< <<S("success"), PyFalse>>,
                            <<S("error"), DictAt(parsed, S("error"))>> >>),
     success |-> PyFalse]

\* no except clause: the exception leaves the callback
Caught_propagates(e) == e

\* lines 149-151, 168-170, 270-271, 273-287, 323-325: except Exception as e:
\* the exception is printed and the callback returns None
Caught(e) == PyNone

\* get_handlers(): the dict _handlers of the device module, which nothing fills
get_handlers == PyDict(<<>>)

(***************************************************************************)
(* State                                                                   *)
(***************************************************************************)
VARIABLES
    op,               \* the function or callback run last ("" once it has returned)
    arg,              \* its arguments
    ret,              \* what it returned, or the exception that left it
    handlers,         \* commands._handlers (PyNone until the module is imported)
    called,           \* the handlers the last operation invoked
    protocol_loaded,  \* _protocol_loaded
    response_queue,   \* _response_queue
    enqueued,         \* the number of records created so far
    dequeued,         \* the ids of the records OnIdle took from the queue, in order
    sent,             \* the ids of the records whose frame OnIdle wrote, in order
    written,          \* the frames the last callback wrote to the output port
    handled,          \* event.handled after the last callback
    caught            \* the exceptions the except clauses of the last callback caught

devvars == <<handlers, called, protocol_loaded, response_queue, enqueued, dequeued,
             sent, written, handled, caught>>

vars == <<op, arg, ret, handlers, called, protocol_loaded, response_queue, enqueued,
          dequeued, sent, written, handled, caught>>

\* the device module as loaded, with nothing imported, queued or written
NoDevice ==
    /\ handlers = PyNone
    /\ called = <<>>
    /\ protocol_loaded = FALSE
    /\ response_queue = <<>>
    /\ enqueued = 0
    /\ dequeued = <<>>
    /\ sent = <<>>
    /\ written = <<>>
    /\ handled = FALSE
    /\ caught = <<>>

(***************************************************************************)
(* The values the functions are applied to                                 *)
(***************************************************************************)
\* the longest action string drawn
MaxActionLen == 2
\* the largest number of full chunks a response is sized for
MaxChunks == 2
\* the longest cut-short frame drawn
MaxShort == 8

\* a, ", \, e-acute, a control character, a character beyond the BMP
ActionChars == {97, 34, 92, 233, 10, 128512}

RECURSIVE StringsUpTo(_, _)
\* the strings over chars of length at most n
StringsUpTo(chars, n) ==
    IF n = 0 THEN {<<>>}
    ELSE LET shorter == StringsUpTo(chars, n - 1)
         IN  shorter \cup {Append(s, c) : s \in shorter, c \in chars}

ActionStrings == StringsUpTo(ActionChars, MaxActionLen) \cup {S("system.echo"), S("nope.nope")}

ClientIds == {1, 72, 127}

\* params mappings (str keys, JSON values), and None for an absent params
ParamsValues ==
    { PyNone,
      PyDict(<<>>),
      PyDict(<< <<S("n"), PyInt(1)>> >>),
      PyDict(<< <<S("track"), PyInt(-12)>>, <<S("name"), PyStr(<<75, 34, 92, 233>>)>> >>),
      PyDict(<< <<S("on"), PyTrue>>, <<S("off"), PyFalse>>, <<S("x"), PyNone>>,
                <<S("v"), PyFloat(S("0.75"))>> >>),
      PyDict(<< <<S("notes"), PyList(<<PyInt(60), PyInt(0), PyStr(<<>>)>>)>>,
                <<S("opts"), PyDict(<< <<S("action"), PyStr(S("x"))>> >>)>> >>),
      PyDict(<< <<<<>>, PyList(<<>>)>>, <<S("success"), PyDict(<<>>)>> >>),
      PyDict(<< <<<<34, 128512>>, PyList(<<PyList(<<PyDict(<<>>)>>)>>)>> >>) }

\* the JSON texts of inbound payloads: commands, and texts parse_sysex rejects
PayloadTexts ==
    { S("{\"action\": \"a\", \"params\": {}}"),
      S(" {\"params\":{\"k\":[1,2.5e3,-0]},") \o <<10, 9>>
          \o S("\"action\" : \"system.echo\"} "),
      S("{\"action\": \"\\u0061\\n\\ud83d\\ude00\", \"action\": \"b\"}"),
      S("{\"action\": 5}"),
      S("{\"action\": null, \"params\": 1}"),
      S("{\"params\": {}}"),
      S("{}"),
      S("[\"action\"]"),
      S("\"action\""),
      S("17"),
      S("null"),
      S("{\"action\": \"a\",}"),
      S("{\"action\": \"a\"} x"),
      S("{action: 1}"),
      S("") }

\* payload bytes: the base64 text of a JSON text, and bytes that are not
\* ASCII, not base64 or not UTF-8
Payloads ==
    { B64Text(text) : text \in PayloadTexts }
    \cup { <<>>,
           <<200, 65, 65, 65>>,
           S("A"), S("AA"), S("AAA"), S("e30"), S("e30=="), S("e30=e30="),
           S("e3") \o <<10>> \o S("0=!"), S("=e30="), S("e30=A"), S("!!!!"),
           b64encode(<<255, 254>>), b64encode(<<123, 34, 195, 34, 125>>),
           b64encode(<<34, 195, 169, 226, 130, 172, 240, 159, 152, 128, 34>>),
           b64encode(<<237, 160, 128>>), b64encode(<<192, 128>>) }

HeaderBytes ==
    [ start : {SYSEX_START, SYSEX_END}, manufacturer : {MANUFACTURER_ID, 126},
      origin : {ORIGIN_CLIENT, ORIGIN_SERVER}, client_id : {0, 5, 200},
      continuation : {0, 1}, msg_type : {MSG_TYPE_COMMAND, MSG_TYPE_RESPONSE},
      status : {STATUS_OK}, end : {SYSEX_END, 0} ]

\* the bytes of a frame with header h and the given payload
RawFrame(h, payload) ==
    <<h.start, h.manufacturer, h.origin, h.client_id, h.continuation, h.msg_type,
      h.status>> \o payload \o <<h.end>>

(***************************************************************************)
(* The functions of sysex.py applied to drawn arguments                    *)
(***************************************************************************)
\* the arguments of build_sysex_command are drawn
InitCommand ==
    /\ op = "input"
    /\ arg \in [client_id : ClientIds, action : ActionStrings, params : ParamsValues]
    /\ ret = PyNone
    /\ NoDevice

\* build_sysex_command(client_id, action, params)
BuildCommand ==
    /\ op = "input"
    /\ op' = "build_sysex_command"
    /\ arg' = arg
    /\ ret' = build_sysex_command(PyInt(arg.client_id), PyStr(arg.action), arg.params)
    /\ UNCHANGED devvars

\* parse_sysex(bytes(cmd)) of the command frame just built
ParseBuilt ==
    /\ op = "build_sysex_command"
    /\ ~IsExc(ret)
    /\ op' = "parse_sysex(build_sysex_command)"
    /\ arg' = arg
    /\ ret' = parse_sysex(ret.a)
    /\ UNCHANGED devvars

NextCommand == BuildCommand \/ ParseBuilt

SpecCommand == InitCommand /\ [][NextCommand]_vars

\* the bytes parse_sysex is applied to are drawn: every header with three of
\* the payloads, every payload under the headers with good framing, and frames
\* cut to their first n bytes
InitParse ==
    /\ op = "input"
    /\ \/ \E h \in HeaderBytes, payload \in {<<>>, S("e30="), S("A")} :
            arg = [data |-> RawFrame(h, payload)]
       \/ \E h \in HeaderBytes, payload \in Payloads :
            /\ h.start = SYSEX_START /\ h.end = SYSEX_END
            /\ h.manufacturer = MANUFACTURER_ID
            /\ arg = [data |-> RawFrame(h, payload)]
       \/ \E h \in HeaderBytes, n \in 0..MaxShort :
            arg = [data |-> SubSeq(RawFrame(h, S("e30=")), 1, n)]
    /\ ret = PyNone
    /\ NoDevice

\* parse_sysex(data)
ParseSysex ==
    /\ op = "input"
    /\ op' = "parse_sysex"
    /\ arg' = arg
    /\ ret' = parse_sysex(arg.data)
    /\ UNCHANGED devvars

NextParse == ParseSysex

SpecParse == InitParse /\ [][NextParse]_vars

\* a response whose base64 text has n characters (n a multiple of 4): the
\* JSON text is {"success": true, "data": "xx...x"}, 29 characters around the x's
SizedResponse(n) ==
    PyDict(<< <<S("success"), PyTrue>>,
              <<S("data"), PyStr([i \in 1..((n \div 4) * 3 - 29) |-> 120])>> >>)

\* the base64 lengths around each multiple of MAX_PAYLOAD_BYTES
SizedLengths ==
    { k * MAX_PAYLOAD_BYTES + d : k \in 1..MaxChunks, d \in {-4, 0, 4} }

\* result envelopes, values that are no mapping, values json cannot serialise
Responses ==
    { PyDict(<< <<S("success"), PyTrue>> >>),
      PyDict(<< <<S("success"), PyFalse>>, <<S("error"), PyStr(S("Unknown action: x"))>> >>),
      PyDict(<<>>),
      PyDict(<< <<S("success"), PyTrue>>,
                <<S("echo"), PyDict(<< <<S("k"), PyList(<<PyInt(1), PyStr(<<233, 34>>)>>)>> >>)>> >>),
      PyDict(<< <<S("foo"), PyInt(1)>> >>),
      PyList(<<PyStr(S("system.ping")), PyStr(S("system.echo"))>>),
      PyNone,
      PyStr(S("done")),
      PyObject,
      PyDict(<< <<S("success"), PyTrue>>, <<S("result"), PyList(<<PyObject>>)>> >>) }
    \cup { SizedResponse(n) : n \in SizedLengths }

\* client_id arguments: in range, out of range, and one that is no int
ResponseClientIds == {PyInt(0), PyInt(5), PyInt(127), PyInt(200), PyInt(-1), PyNone}

\* the arguments of the response builders are drawn
InitResponse ==
    /\ op = "input"
    /\ arg \in [client_id : ResponseClientIds, response : Responses,
                success : {PyTrue, PyFalse}]
    /\ ret = PyNone
    /\ NoDevice

\* build_sysex_response(client_id, response, success)
BuildResponse ==
    /\ op = "input"
    /\ op' = "build_sysex_response"
    /\ arg' = arg
    /\ ret' = build_sysex_response(arg.client_id, arg.response, arg.success)
    /\ UNCHANGED devvars

\* build_chunked_sysex_response(client_id, response, success)
BuildChunked ==
    /\ op = "input"
    /\ op' = "build_chunked_sysex_response"
    /\ arg' = arg
    /\ ret' = build_chunked_sysex_response(arg.client_id, arg.response, arg.success)
    /\ UNCHANGED devvars

\* build_sysex_command(client_id, 'system.ping') with the client_id drawn
BuildCommandWithId ==
    /\ op = "input"
    /\ op' = "build_sysex_command"
    /\ arg' = arg
    /\ ret' = build_sysex_command(arg.client_id, PyStr(S("system.ping")), PyNone)
    /\ UNCHANGED devvars

NextResponse == BuildResponse \/ BuildChunked \/ BuildCommandWithId

SpecResponse == InitResponse /\ [][NextResponse]_vars

(***************************************************************************)
(* The registry and the dispatcher of commands.py                          *)
(***************************************************************************)
\* the callback or function returns and its outputs are consumed
Return ==
    /\ op # ""
    /\ op' = ""
    /\ arg' = <<>>
    /\ ret' = PyNone
    /\ called' = <<>>
    /\ written' = <<>>
    /\ handled' = FALSE
    /\ caught' = <<>>
    /\ UNCHANGED <<handlers, protocol_loaded, response_queue, enqueued, dequeued, sent>>

\* the action names a caller registers handlers under
RegisterNames == {S("my.action"), S("system.echo")}

\* the action names a caller unregisters or looks up
LookupNames == RegisterNames \cup {S("nope.nope")}

\* the handlers a caller registers: returning a mapping without success, with
\* success, an empty mapping, values that are no mapping, and raising
CallerHandlers ==
    { Returns(PyDict(<< <<S("foo"), PyInt(1)>> >>)),
      Returns(PyDict(<< <<S("success"), PyFalse>>, <<S("error"), PyStr(S("bad"))>> >>)),
      Returns(PyDict(<< <<S("x"), PyInt(1)>>, <<S("success"), PyNone>> >>)),
      Returns(PyDict(<<>>)),
      Returns(PyNone),
      Returns(PyStr(S("done"))),
      Returns(PyList(<<PyInt(1)>>)),
      Raises(Exc("Exception", S("boom"))),
      Raises(Exc("Exception", <<>>)),
      Raises(Exc("ValueError", S("bad value: \"x\""))) }

\* the values of "action" in a command: names registered and not, the empty
\* string, values that are no string, values that cannot be a dict key
ActionValues ==
    { PyStr(S("system.ping")), PyStr(S("system.list_handlers")), PyStr(S("system.echo")),
      PyStr(S("my.action")), PyStr(S("nope.nope")), PyStr(S("x")),
      PyStr(<<233, 34, 10>>), PyStr(<<>>),
      PyNone, PyInt(5), PyInt(0), PyTrue, PyFalse, PyFloat(S("2.5")),
      PyList(<<PyInt(1)>>), PyList(<<>>), PyDict(<<>>),
      PyDict(<< <<S("a"), PyInt(1)>> >>) }

\* the commands: with and without params, without action, and no mapping
Commands ==
    { PyDict(<< <<S("action"), a>> >>) : a \in ActionValues }
    \cup { PyDict(<< <<S("action"), a>>, <<S("params"), p>> >>) :
             a \in ActionValues,
             p \in { PyDict(<<>>), PyDict(<< <<S("k"), PyList(<<PyInt(1)>>)>> >>), PyNone } }
    \cup { PyDict(<<>>), PyDict(<< <<S("params"), PyDict(<<>>)>> >>),
           PyList(<<PyInt(1), PyInt(2)>>), PyNone, PyStr(S("system.echo")), PyInt(3) }

\* the arguments of execute_command: results of parse_sysex, and values that
\* lack the command or are no mapping
ParsedInputs ==
    { PyDict(<< <<S("client_id"), PyInt(5)>>, <<S("command"), c>> >>) : c \in Commands }
    \cup { PyDict(<< <<S("client_id"), PyInt(0)>>,
                     <<S("error"), PyStr(S("Message too short"))>> >>),
           PyDict(<< <<S("client_id"), PyInt(5)>>, <<S("error"), PyNone>>,
                     <<S("command"), PyDict(<< <<S("action"), PyStr(S("system.echo"))>> >>)>> >>),
           PyDict(<< <<S("client_id"), PyInt(1)>> >>),
           PyDict(<<>>),
           PyNone, PyInt(7), PyObject,
           PyList(<<PyStr(S("error"))>>), PyList(<<PyStr(S("command"))>>),
           PyStr(S("an error")), PyStr(S("command")) }

\* {success: false, error: message}
Failure(message) ==
    PyDict(<< <<S("success"), PyFalse>>, <<S("error"), PyStr(message)>> >>)

(***************************************************************************)
(* handlers/playlist.py: playlist.jump_to_marker                           *)
(***************************************************************************)
\* the most markers a playlist of the inputs has
MaxMarkers == 2

\* str.lower() on ASCII text
lower(s) == [k \in 1..Len(s) |-> IF s[k] >= 65 /\ s[k] <= 90 THEN s[k] + 32 ELSE s[k]]

\* lines 474-496: the while loop from marker i on. arrangement.getMarkerName(i)
\* is the i-th name of markers and the empty string past the last one. After
\* i += 1 the safety limit compares index, not i, with 999: None > 999 raises
\* TypeError.
RECURSIVE FindMarker(_, _, _, _)
FindMarker(markers, name, index, i) ==
    LET marker_name == IF i < Len(markers) THEN markers[i + 1] ELSE <<>>
        needle == lower(name.a)
        hay == lower(marker_name)
    IN  IF marker_name = <<>>
        THEN [kind |-> "none"]
        ELSE IF name # PyNone
                /\ \E k \in 0..(Len(hay) - Len(needle)) :
                       SubSeq(hay, k + 1, k + Len(needle)) = needle
        THEN [kind |-> "found", index |-> i, name |-> marker_name]
        ELSE IF index # PyNone /\ i = index.a[1]
        THEN [kind |-> "found", index |-> i, name |-> marker_name]
        ELSE IF index = PyNone
        THEN [kind |-> "raise",
              e |-> Exc("TypeError",
                        S("'>' not supported between instances of 'NoneType' and 'int'"))]
        ELSE IF index.a[1] > 999
        THEN [kind |-> "none"]
        ELSE FindMarker(markers, name, index, i + 1)

\* handle_playlist_jump_to_marker(params) with the arrangement module
\* available or not and the marker names of the playlist; jumped says
\* whether arrangement.jumpToMarker(1, True) was called
handle_playlist_jump_to_marker(available, markers, params) ==
    LET name == DictGet(params, S("name"), PyNone)
        index == DictGet(params, S("index"), PyNone)
        target == FindMarker(markers, name, index, 0)
    IN  IF ~available
        THEN [ret |-> Failure(S("Arrangement module not available")), jumped |-> FALSE]
        ELSE IF name = PyNone /\ index = PyNone
        THEN [ret |-> Failure(S("Must provide either name or index")), jumped |-> FALSE]
        ELSE IF target.kind = "raise"
        THEN [ret |-> Failure(target.e.a), jumped |-> FALSE]
        ELSE IF target.kind = "none"
        THEN [ret |-> IF name # PyNone
                      THEN Failure(S("Marker \"") \o name.a \o S("\" not found"))
                      ELSE Failure(S("No marker at index ") \o StrOf(index)),
              jumped |-> FALSE]
        ELSE [ret |-> PyDict(<< <<S("success"), PyTrue>>,
                                <<S("marker"), PyStr(target.name)>>,
                                <<S("index"), PyInt(target.index)>> >>),
              jumped |-> TRUE]

\* handle_playlist_jump_to_marker(params) on a playlist of at most MaxMarkers
\* markers
JumpToMarker ==
    /\ op = ""
    /\ \E available \in BOOLEAN,
          markers \in UNION { [1..n -> {S("Intro"), S("Drop 2")}] : n \in 0..MaxMarkers },
          names \in SUBSET {S("intro"), S("DROP"), S("2"), S("Outro")},
          indexes \in SUBSET {0, 1, 1000} :
         /\ Cardinality(names) <= 1 /\ Cardinality(indexes) <= 1
         /\ arg' = [available |-> available, markers |-> markers,
                    params |-> PyDict([k \in 1..Cardinality(names) |->
                                          <<S("name"), PyStr(CHOOSE s \in names : TRUE)>>]
                                      \o [k \in 1..Cardinality(indexes) |->
                                          <<S("index"), PyInt(CHOOSE n \in indexes : TRUE)>>])]
         /\ ret' = handle_playlist_jump_to_marker(available, markers, arg'.params).ret
         /\ called' = IF handle_playlist_jump_to_marker(available, markers, arg'.params).jumped
                      THEN <<Function("arrangement.jumpToMarker")>> ELSE <<>>
    /\ op' = "handle_playlist_jump_to_marker"
    /\ UNCHANGED <<handlers, protocol_loaded, response_queue, enqueued, dequeued, sent,
                   written, handled, caught>>

\* commands.py imported: the built-in handlers are registered
InitExecute ==
    /\ op = ""
    /\ arg = <<>>
    /\ ret = PyNone
    /\ handlers = BuiltinHandlers
    /\ called = <<>>
    /\ protocol_loaded = FALSE
    /\ response_queue = <<>>
    /\ enqueued = 0
    /\ dequeued = <<>>
    /\ sent = <<>>
    /\ written = <<>>
    /\ handled = FALSE
    /\ caught = <<>>

\* register_handler(action, handler)
RegisterHandler ==
    /\ op = ""
    /\ \E action \in RegisterNames, handler \in CallerHandlers :
         /\ arg' = [action |-> action, handler |-> handler]
         /\ handlers' = register_handler(handlers, action, handler)
    /\ op' = "register_handler"
    /\ ret' = PyNone
    /\ UNCHANGED <<called, protocol_loaded, response_queue, enqueued, dequeued, sent,
                   written, handled, caught>>

\* unregister_handler(action)
UnregisterHandler ==
    /\ op = ""
    /\ \E action \in LookupNames :
         /\ arg' = [action |-> action]
         /\ handlers' = unregister_handler(handlers, action).registry
         /\ ret' = unregister_handler(handlers, action).ret
    /\ op' = "unregister_handler"
    /\ UNCHANGED <<called, protocol_loaded, response_queue, enqueued, dequeued, sent,
                   written, handled, caught>>

\* get_handler(action)
GetHandler ==
    /\ op = ""
    /\ \E action \in LookupNames :
         /\ arg' = [action |-> action]
         /\ ret' = get_handler(handlers, PyStr(action))
    /\ op' = "get_handler"
    /\ UNCHANGED devvars

\* list_handlers()
ListHandlers ==
    /\ op = ""
    /\ op' = "list_handlers"
    /\ arg' = <<>>
    /\ ret' = list_handlers(handlers)
    /\ UNCHANGED devvars

\* what execute_command returned and the handlers it invoked are recorded
Executed(executed) ==
    /\ ret' = executed.ret
    /\ called' = executed.called

\* execute_command(parsed)
ExecuteCommand ==
    /\ op = ""
    /\ \E parsed \in ParsedInputs :
         /\ arg' = [parsed |-> parsed]
         /\ Executed(execute_command(handlers, parsed))
    /\ op' = "execute_command"
    /\ UNCHANGED <<handlers, protocol_loaded, response_queue, enqueued, dequeued, sent,
                   written, handled, caught>>

NextExecute ==
    \/ RegisterHandler
    \/ UnregisterHandler
    \/ GetHandler
    \/ ListHandlers
    \/ ExecuteCommand
    \/ JumpToMarker
    \/ Return

SpecExecute == InitExecute /\ [][NextExecute]_vars

(***************************************************************************)
(* The callbacks of device_FLBridge.py                                     *)
(***************************************************************************)
\* the largest number of records queued over a run
MaxEnqueued == 3

\* how an import statement of OnInit ends
ImportOutcomes == {"ok", "ImportError", "Exception"}

\* handlers/transport.py line 131, standing for the handlers that the modules
\* of the handlers package register; the FL Studio module transport is there
DomainHandlers(registry) ==
    register_handler(registry, S("transport.stop"),
                     [t |-> "function", a |-> S("handle_transport_stop"),
                      kv |-> << <<S("transport"), PyObject>> >>])

\* the imports of the handler modules without their own try: an ImportError
\* there reaches the outer except clause like any exception
OnInitBody_one_try(registry, protocol, handler_modules, plugin_module) ==
    LET imported == IF registry = PyNone THEN BuiltinHandlers ELSE registry
        registered == IF handler_modules = "ok" THEN DomainHandlers(imported)
                      ELSE imported
    IN  IF protocol # "ok"
        THEN [loaded |-> FALSE, registry |-> registry,
              caught |-> <<Exc(protocol, S("protocol"))>>]
        ELSE IF handler_modules # "ok"
        THEN [loaded |-> FALSE, registry |-> imported,
              caught |-> <<Exc(handler_modules, S("handlers"))>>]
        ELSE IF plugin_module # "ok"
        THEN [loaded |-> FALSE, registry |-> registered,
              caught |-> <<Exc(plugin_module, S("plugins"))>>]
        ELSE [loaded |-> TRUE, registry |-> registered, caught |-> <<>>]

\* OnInit(): _protocol_loaded and the registry afterwards, and the exceptions
\* of the import statements that the except clauses caught. An import that
\* succeeded once is not run again.
OnInitBody(registry, protocol, handler_modules, plugin_module) ==
    LET imported == IF registry = PyNone THEN BuiltinHandlers ELSE registry
        registered == IF handler_modules = "ok" THEN DomainHandlers(imported)
                      ELSE imported
        warned == IF handler_modules = "ImportError"
                  THEN <<Exc("ImportError", S("handlers"))>> ELSE <<>>
    IN  IF protocol # "ok"
        THEN [loaded |-> FALSE, registry |-> registry,
              caught |-> <<Exc(protocol, S("protocol"))>>]
        ELSE IF handler_modules = "Exception"
        THEN [loaded |-> FALSE, registry |-> imported,
              caught |-> <<Exc("Exception", S("handlers"))>>]
        ELSE IF plugin_module = "Exception"
        THEN [loaded |-> FALSE, registry |-> registered,
              caught |-> warned \o <<Exc("Exception", S("plugins"))>>]
        ELSE [loaded |-> TRUE, registry |-> registered,
              caught |-> IF plugin_module = "ImportError"
                         THEN warned \o <<Exc("ImportError", S("plugins"))>>
                         ELSE warned]

\* the command frames and other events the host delivers to OnSysEx
CommandFrame(client_id, action, params) ==
    PyBytes(build_sysex_command(PyInt(client_id), PyStr(S(action)), params).a)

Events ==
    { [sysex |-> CommandFrame(5, "system.echo", PyDict(<< <<S("n"), PyInt(1)>> >>)),
       data |-> Absent],
      [sysex |-> CommandFrame(9, "nope.nope", PyNone), data |-> Absent],
      [sysex |-> CommandFrame(127, "transport.stop", PyNone), data |-> Absent],
      [sysex |-> Absent, data |-> CommandFrame(1, "system.ping", PyNone)],
      [sysex |-> PyNone, data |-> Absent],
      [sysex |-> Absent, data |-> Absent],
      [sysex |-> PyBytes(<<240, 125>>), data |-> Absent],
      [sysex |-> PyBytes(<<240, 126, 0, 1, 0, 1, 0, 247>>), data |-> Absent],
      [sysex |-> PyBytes(<<240, 125, 0, 5, 0, 1, 0, 247>>), data |-> Absent],
      [sysex |-> PyBytes(<<240, 125, 300>>), data |-> Absent] }

\* the frames among the events
EventFrames ==
    { SysexData(event).a : event \in { e \in Events : SysexData(e) # PyNone } }

\* the frames a client or another device on the port sends: every header with
\* three of the payloads, every payload under the headers of a client frame,
\* frames cut to their first n bytes, the frames of Events, and commands for a
\* caller's handler, with an empty action and with an action that is a list
InboundFrames ==
    { RawFrame(h, payload) : h \in HeaderBytes, payload \in {<<>>, S("e30="), S("A")} }
    \cup { RawFrame(h, payload) :
             h \in { g \in HeaderBytes : /\ g.start = SYSEX_START /\ g.end = SYSEX_END
                                          /\ g.manufacturer = MANUFACTURER_ID },
             payload \in Payloads }
    \cup { SubSeq(RawFrame(h, S("e30=")), 1, n) : h \in HeaderBytes, n \in 0..MaxShort }
    \cup { frame \in EventFrames : \A i \in 1..Len(frame) : frame[i] \in 0..255 }
    \cup { CommandFrame(7, "my.action", PyNone).a,
           CommandFrame(200, "my.action", PyDict(<< <<S("n"), PyInt(1)>> >>)).a,
           CommandFrame(3, "", PyNone).a,
           <<SYSEX_START, MANUFACTURER_ID, ORIGIN_CLIENT, 4, 0, MSG_TYPE_COMMAND, STATUS_OK>>
               \o B64Text(S("{\"action\": [1]}")) \o <<SYSEX_END>> }

\* parse_sysex(frame) for the frames OnSysEx parses, evaluated once
ParsedFrames ==
    { <<frame, parse_sysex(frame)>> :
        frame \in { f \in EventFrames \cup InboundFrames :
                      Len(f) >= 3 /\ f[1] = 240 /\ f[2] = 125 } }

\* parse_sysex(data) for the frame of an event, taken from ParsedFrames
Parsed(data) == (CHOOSE p \in ParsedFrames : p[1] = data)[2]

\* what OnSysEx does: the value of event.handled, the records appended to the
\* queue, the frames handed to device.midiOutSysex one after the other, the
\* handlers invoked and the exceptions caught
Outcome(event_handled, appended, chunks, invoked, raised) ==
    [handled |-> event_handled, append |-> appended, chunks |-> chunks,
     called |-> invoked, raised |-> raised]

\* lines 262-269: the chunks built are sent; an exception of the builder is
\* caught at line 270
OnSysExBuilt(executed, chunks) ==
    Outcome(TRUE, <<>>,
            IF IsExc(chunks) THEN <<>>
            ELSE [i \in 1..Len(chunks.kv) |-> chunks.kv[i][2].a],
            executed.called,
            IF IsExc(chunks) THEN <<chunks>> ELSE <<>>)

\* the response built without the success argument, which defaults to True
OnSysExExecuted_status_ok(parsed, executed) ==
    OnSysExBuilt(executed,
                 build_chunked_sysex_response(DictAt(parsed, S("client_id")), executed.ret,
                                              PyTrue))

\* the response built with build_sysex_response: one frame whatever its size
OnSysExExecuted_unchunked(parsed, executed) ==
    OnSysExBuilt(executed,
                 LET frame == build_sysex_response(DictAt(parsed, S("client_id")),
                                                   executed.ret,
                                                   DictGet(executed.ret, S("success"), PyTrue))
                 IN  IF IsExc(frame) THEN frame ELSE PyList(<<frame>>))

\* lines 252-261: the response to the result of the command is built
OnSysExExecuted(parsed, executed) ==
    OnSysExBuilt(executed,
                 build_chunked_sysex_response(DictAt(parsed, S("client_id")), executed.ret,
                                              DictGet(executed.ret, S("success"), PyTrue)))

\* lines 232-251: a rejected frame is answered through the queue, a command is
\* executed
OnSysExParsed(registry, parsed) ==
    IF DictHas(parsed, S("error"))
    THEN Outcome(TRUE, <<ParseErrorRecord(parsed)>>, <<>>, <<>>, <<>>)
    ELSE OnSysExExecuted(parsed, execute_command(registry, parsed))

\* lines 226-231 and 273-287: the message is ours; bytes(sysex_data) is parsed,
\* and its exception is caught by the outer handler
OnSysExOurs(registry, data) ==
    IF IsExc(data) THEN Outcome(TRUE, <<CaughtRecord(data)>>, <<>>, <<>>, <<data>>)
    ELSE OnSysExParsed(registry, Parsed(data.a))

\* only the start byte is checked: every SysEx message is taken as ours
OnSysExBody_start_only(loaded, registry, sysex_data) ==
    IF ~loaded THEN Outcome(TRUE, <<>>, <<>>, <<>>, <<>>)
    ELSE IF sysex_data = PyNone THEN Outcome(FALSE, <<>>, <<>>, <<>>, <<>>)
    ELSE IF Len(sysex_data.a) < 3 THEN Outcome(FALSE, <<>>, <<>>, <<>>, <<>>)
    ELSE IF sysex_data.a[1] # 240
    THEN Outcome(FALSE, <<>>, <<>>, <<>>, <<>>)
    ELSE IF IsExc(ToBytes(sysex_data))
    THEN Outcome(TRUE, <<CaughtRecord(ToBytes(sysex_data))>>, <<>>, <<>>,
                 <<ToBytes(sysex_data)>>)
    ELSE OnSysExParsed(registry, parse_sysex(sysex_data.a))

\* the check of _protocol_loaded at lines 194-197 left out
OnSysExBody_unguarded(loaded, registry, sysex_data) ==
    IF sysex_data = PyNone THEN Outcome(FALSE, <<>>, <<>>, <<>>, <<>>)
    ELSE IF Len(sysex_data.a) < 3 THEN Outcome(FALSE, <<>>, <<>>, <<>>, <<>>)
    ELSE IF sysex_data.a[1] # 240 \/ sysex_data.a[2] # 125
    THEN Outcome(FALSE, <<>>, <<>>, <<>>, <<>>)
    ELSE OnSysExOurs(IF registry = PyNone THEN BuiltinHandlers ELSE registry,
                     ToBytes(sysex_data))

\* OnSysEx(event) up to the sending, for the data of the event
OnSysExBody(loaded, registry, sysex_data) ==
    IF ~loaded THEN Outcome(TRUE, <<>>, <<>>, <<>>, <<>>)
    ELSE IF sysex_data = PyNone THEN Outcome(FALSE, <<>>, <<>>, <<>>, <<>>)
    ELSE IF Len(sysex_data.a) < 3 THEN Outcome(FALSE, <<>>, <<>>, <<>>, <<>>)
    ELSE IF sysex_data.a[1] # 240 \/ sysex_data.a[2] # 125
    THEN Outcome(FALSE, <<>>, <<>>, <<>>, <<>>)
    ELSE OnSysExOurs(registry, ToBytes(sysex_data))

\* the arguments of queue_response; success is True when the caller leaves it
\* out
QueueArgs ==
    { [client_id |-> PyInt(1),
       response |-> PyDict(<< <<S("success"), PyTrue>>, <<S("note"), PyStr(S("n"))>> >>),
       success |-> PyTrue],
      [client_id |-> PyNone,
       response |-> PyDict(<< <<S("success"), PyFalse>>, <<S("error"), PyStr(S("e"))>> >>),
       success |-> PyFalse],
      [client_id |-> PyInt(2),
       response |-> PyDict(<< <<S("success"), PyFalse>>, <<S("error"), PyStr(S("e"))>> >>),
       success |-> PyTrue] }

\* the module as loaded by the host
Init ==
    /\ op = ""
    /\ arg = <<>>
    /\ ret = PyNone
    /\ NoDevice

\* OnInit()
OnInit ==
    /\ op = ""
    /\ \E protocol \in ImportOutcomes, handler_modules \in ImportOutcomes,
          plugin_module \in ImportOutcomes :
         /\ arg' = [protocol |-> protocol, handler_modules |-> handler_modules,
                    plugin_module |-> plugin_module]
         /\ protocol_loaded' =
                OnInitBody(handlers, protocol, handler_modules, plugin_module).loaded
         /\ handlers' =
                OnInitBody(handlers, protocol, handler_modules, plugin_module).registry
         /\ caught' =
                OnInitBody(handlers, protocol, handler_modules, plugin_module).caught
    /\ op' = "OnInit"
    /\ ret' = IF caught' = <<>> THEN PyNone ELSE Caught(caught'[Len(caught')])
    /\ UNCHANGED <<called, response_queue, enqueued, dequeued, sent, written, handled>>

\* OnDeInit() without the call of _response_queue.clear() at line 166
OnDeInit_keeps_queue ==
    /\ op = ""
    /\ op' = "OnDeInit"
    /\ arg' = <<>>
    /\ ret' = PyNone
    /\ caught' = <<>>
    /\ UNCHANGED <<handlers, called, protocol_loaded, response_queue, enqueued, dequeued,
                   sent, written, handled>>

\* OnDeInit()
OnDeInit ==
    /\ op = ""
    /\ op' = "OnDeInit"
    /\ arg' = <<>>
    /\ ret' = PyNone
    /\ response_queue' = <<>>
    /\ caught' = <<>>
    /\ UNCHANGED <<handlers, called, protocol_loaded, enqueued, dequeued, sent, written,
                   handled>>

\* OnSysEx queuing an error record when a write to the output port raises
OnSysExEffect_queue_on_failure(event, body) ==
    /\ enqueued + 1 <= MaxEnqueued
    /\ arg' = [event |-> event]
    /\ handled' = body.handled
    /\ called' = body.called
    /\ \E n \in 0..Len(body.chunks) :
         /\ written' = SubSeq(body.chunks, 1, n)
         /\ caught' = IF n < Len(body.chunks)
                      THEN body.raised \o <<Exc("OSError", S("midiOutSysex"))>>
                      ELSE body.raised
         /\ response_queue' =
                IF body.append # <<>>
                THEN Enqueue(response_queue, enqueued + 1, body.append[1].client_id,
                             body.append[1].response, body.append[1].success)
                ELSE IF n < Len(body.chunks)
                THEN Enqueue(response_queue, enqueued + 1, PyInt(0),
                             Failure(S("midiOutSysex")), PyFalse)
                ELSE response_queue
         /\ enqueued' = enqueued + (Len(response_queue') - Len(response_queue))

\* the state after OnSysEx(event) whose body gave the outcome body;
\* device.midiOutSysex raises at any chunk, which ends the sending
OnSysExEffect(event, body) ==
    /\ enqueued + Len(body.append) <= MaxEnqueued
    /\ arg' = [event |-> event]
    /\ handled' = body.handled
    /\ called' = body.called
    /\ response_queue' =
           IF body.append = <<>> THEN response_queue
           ELSE Enqueue(response_queue, enqueued + 1, body.append[1].client_id,
                        body.append[1].response, body.append[1].success)
    /\ enqueued' = enqueued + Len(body.append)
    /\ \E n \in 0..Len(body.chunks) :
         /\ written' = SubSeq(body.chunks, 1, n)
         /\ caught' = IF n < Len(body.chunks)
                      THEN body.raised \o <<Exc("OSError", S("midiOutSysex"))>>
                      ELSE body.raised

\* OnSysEx(event)
OnSysEx ==
    /\ op = ""
    /\ \E event \in Events :
         OnSysExEffect(event, OnSysExBody(protocol_loaded, handlers, SysexData(event)))
    /\ op' = "OnSysEx"
    /\ ret' = IF caught' = <<>> THEN PyNone ELSE Caught(caught'[Len(caught')])
    /\ UNCHANGED <<handlers, protocol_loaded, dequeued, sent>>

\* lines 311-321: the frame of the record taken is built and written;
\* build_sysex_response or device.midiOutSysex may raise, which line 323 catches
OnIdleSend(response_data, sysex_bytes) ==
    \E raises \in BOOLEAN :
        IF IsExc(sysex_bytes) \/ raises
        THEN /\ written' = <<>>
             /\ sent' = sent
             /\ caught' = IF IsExc(sysex_bytes) THEN <<sysex_bytes>>
                          ELSE <<Exc("OSError", S("midiOutSysex"))>>
        ELSE /\ written' = <<sysex_bytes.a>>
             /\ sent' = Append(sent, response_data.id)
             /\ caught' = <<>>

\* the frame of the record built without its success field, which defaults to
\* True
OnIdleTake_status_ok(popped) ==
    /\ response_queue' = popped.rest
    /\ dequeued' = Append(dequeued, popped.item.id)
    /\ OnIdleSend(popped.item,
                  build_sysex_response(popped.item.client_id, popped.item.response,
                                       PyTrue))

\* the tick writing the first frame of the chunked framing
OnIdleTake_first_chunk(popped) ==
    /\ response_queue' = popped.rest
    /\ dequeued' = Append(dequeued, popped.item.id)
    /\ OnIdleSend(popped.item,
                  build_chunked_sysex_response(popped.item.client_id, popped.item.response,
                                               popped.item.success).kv[1][2])

\* lines 309-321: the head of the queue is taken and sent
OnIdleTake(popped) ==
    /\ response_queue' = popped.rest
    /\ dequeued' = Append(dequeued, popped.item.id)
    /\ OnIdleSend(popped.item,
                  build_sysex_response(popped.item.client_id, popped.item.response,
                                       popped.item.success))

\* OnIdle()
OnIdle ==
    /\ op = ""
    /\ IF response_queue # <<>> /\ protocol_loaded
       THEN OnIdleTake(pop0(response_queue))
       ELSE /\ written' = <<>>
            /\ caught' = <<>>
            /\ UNCHANGED <<response_queue, dequeued, sent>>
    /\ op' = "OnIdle"
    /\ arg' = <<>>
    /\ ret' = IF caught' = <<>> THEN PyNone ELSE Caught(caught'[Len(caught')])
    /\ UNCHANGED <<handlers, called, protocol_loaded, enqueued, handled>>

\* OnMidiMsg(event)
OnMidiMsg ==
    /\ op = ""
    /\ op' = "OnMidiMsg"
    /\ arg' = <<>>
    /\ ret' = PyNone
    /\ UNCHANGED devvars

\* queue_response(client_id, response, success)
QueueResponse ==
    /\ op = ""
    /\ enqueued < MaxEnqueued
    /\ \E r \in QueueArgs :
         /\ arg' = r
         /\ response_queue' = Enqueue(response_queue, enqueued + 1, r.client_id,
                                      r.response, r.success)
    /\ enqueued' = enqueued + 1
    /\ op' = "queue_response"
    /\ ret' = PyNone
    /\ UNCHANGED <<handlers, called, protocol_loaded, dequeued, sent, written, handled,
                   caught>>

Next ==
    \/ OnInit
    \/ OnDeInit
    \/ OnSysEx
    \/ OnIdle
    \/ OnMidiMsg
    \/ QueueResponse
    \/ Return

Spec == Init /\ [][Next]_vars

(***************************************************************************)
(* OnSysEx applied to drawn frames                                         *)
(***************************************************************************)
\* a frame is drawn, and the module is as one OnInit() leaves it, with a
\* handler a caller registered under 'my.action': one that raises and, for the
\* frames that name 'my.action', also one whose result takes two chunks and one
\* whose result json cannot serialise
InitInbound ==
    /\ op = "input"
    /\ arg \in [data : InboundFrames]
    /\ ret = PyNone
    /\ \E protocol \in ImportOutcomes, handler_modules \in ImportOutcomes,
          handler \in
              IF arg.data \in { CommandFrame(7, "my.action", PyNone).a,
                                CommandFrame(200, "my.action",
                                             PyDict(<< <<S("n"), PyInt(1)>> >>)).a }
              THEN { Raises(Exc("ValueError", S("boom"))),
                     Returns(SizedResponse(MAX_PAYLOAD_BYTES + 4)),
                     Returns(PyObject) }
              ELSE { Raises(Exc("ValueError", S("boom"))) } :
         /\ protocol_loaded = OnInitBody(PyNone, protocol, handler_modules, "ok").loaded
         /\ handlers =
                IF OnInitBody(PyNone, protocol, handler_modules, "ok").registry = PyNone
                THEN PyNone
                ELSE register_handler(
                         OnInitBody(PyNone, protocol, handler_modules, "ok").registry,
                         S("my.action"), handler)
    /\ called = <<>>
    /\ response_queue = <<>>
    /\ enqueued = 0
    /\ dequeued = <<>>
    /\ sent = <<>>
    /\ written = <<>>
    /\ handled = FALSE
    /\ caught = <<>>

\* OnSysEx(event) for the event whose sysex attribute is the frame drawn
DeliverSysEx ==
    /\ op = "input"
    /\ OnSysExEffect([sysex |-> PyBytes(arg.data), data |-> Absent],
                     OnSysExBody(protocol_loaded, handlers, PyBytes(arg.data)))
    /\ op' = "OnSysEx"
    /\ ret' = IF caught' = <<>> THEN PyNone ELSE Caught(caught'[Len(caught')])
    /\ UNCHANGED <<handlers, protocol_loaded, dequeued, sent>>

\* OnIdle() next, when OnSysEx left a record in the queue; the event stays on
\* record
DrainQueued ==
    /\ op = "OnSysEx"
    /\ response_queue # <<>> /\ protocol_loaded
    /\ OnIdleTake(pop0(response_queue))
    /\ op' = "OnIdle"
    /\ ret' = IF caught' = <<>> THEN PyNone ELSE Caught(caught'[Len(caught')])
    /\ UNCHANGED <<arg, handlers, called, protocol_loaded, enqueued, handled>>

NextInbound == DeliverSysEx \/ DrainQueued

SpecInbound == InitInbound /\ [][NextInbound]_vars

\* queue_response(client_id, response) after a callback in which a handler
\* ran, with a response whose base64 text is longer than one chunk
QueueOversized ==
    /\ op \in {"OnSysEx", "OnIdle"}
    /\ called # <<>>
    /\ enqueued < MaxEnqueued
    /\ response_queue' = Enqueue(response_queue, enqueued + 1, PyInt(6),
                                 SizedResponse(MAX_PAYLOAD_BYTES + 4), PyTrue)
    /\ enqueued' = enqueued + 1
    /\ op' = "queue_response"
    /\ ret' = PyNone
    /\ UNCHANGED <<arg, handlers, called, protocol_loaded, dequeued, sent, written,
                   handled, caught>>

\* OnIdle() whenever a callback left a record in the queue
DrainOversized ==
    /\ op \in {"queue_response", "OnIdle"}
    /\ response_queue # <<>> /\ protocol_loaded
    /\ OnIdleTake(pop0(response_queue))
    /\ op' = "OnIdle"
    /\ ret' = IF caught' = <<>> THEN PyNone ELSE Caught(caught'[Len(caught')])
    /\ UNCHANGED <<arg, handlers, called, protocol_loaded, enqueued, handled>>

NextOversized == NextInbound \/ QueueOversized \/ DrainOversized

SpecOversized == InitInbound /\ [][NextOversized]_vars

(***************************************************************************)
(* Properties of the frame codec                                           *)
(***************************************************************************)
\* s.startswith(prefix)
StartsWith(s, prefix) == Matches(s, 1, prefix)

\* C1: round trip. For every clientId in 1..127, action string and params
\* mapping (None or empty recovered as the empty mapping), build_sysex_command
\* returns a frame, and parse_sysex of that frame has no error key, the same
\* client_id and the command {action, params}.
C1_RoundTrip ==
    /\ op = "build_sysex_command" => ret.t = "bytes"
    /\ op = "parse_sysex(build_sysex_command)" =>
        /\ ~DictHas(ret, S("error"))
        /\ ret = PyDict(<< <<S("client_id"), PyInt(arg.client_id)>>,
                           <<S("command"),
                             PyDict(<< <<S("action"), PyStr(arg.action)>>,
                                       <<S("params"), IF arg.params = PyNone
                                                      THEN PyDict(<<>>)
                                                      ELSE arg.params>> >>)>> >>)

\* a frame for client 127, an action with a character beyond the BMP and a
\* params mapping with nested values has been built and parsed back
C1_Witness ==
    /\ op = "parse_sysex(build_sysex_command)"
    /\ arg.client_id = 127
    /\ arg.action = <<34, 128512>>
    /\ IsDict(arg.params) /\ Len(arg.params.kv) = 2
    /\ DictHas(ret, S("command"))

\* the number of chunks a base64 text of n characters spans
ChunkCount(n) == (n + MAX_PAYLOAD_BYTES - 1) \div MAX_PAYLOAD_BYTES

\* bytes [7:-1] of a frame
PayloadOf(frame) == SubSeq(frame, 8, Len(frame) - 1)

\* C2: chunk reassembly. For an int client_id and a response json can encode,
\* whose base64 text spans K >= 1 chunks, build_chunked_sysex_response returns
\* exactly K frames, their payloads concatenated in order are the base64 text,
\* frames 1..K-1 have continuation 0x01 and frame K has continuation 0x00.
C2_ChunkReassembly ==
    (op = "build_chunked_sysex_response" /\ arg.client_id.t = "int"
        /\ Encodable(arg.response)) =>
        LET base64_str == B64Text(DumpsText(arg.response))
            K == ChunkCount(Len(base64_str))
        IN  /\ K >= 1
            /\ ret.t = "list"
            /\ Len(ret.kv) = K
            /\ Concat([k \in 1..Len(ret.kv) |-> PayloadOf(ret.kv[k][2].a)]) = base64_str
            /\ \A k \in 1..Len(ret.kv) : ret.kv[k][2].a[5] = (IF k < K THEN 1 ELSE 0)

\* a response of three chunks has been built
C2_Witness ==
    /\ op = "build_chunked_sysex_response"
    /\ ret.t = "list"
    /\ Len(ret.kv) = 3
    /\ ret.kv[1][2].a[5] = 1 /\ ret.kv[3][2].a[5] = 0

\* C3: single-chunk equivalence. For an int client_id, either success flag
\* and a response whose base64 text has 1 to 1800 characters,
\* build_chunked_sysex_response returns the one-element list
\* [build_sysex_response(client_id, response, success)].
C3_SingleChunkEquivalence ==
    (op = "build_chunked_sysex_response" /\ arg.client_id.t = "int"
        /\ Encodable(arg.response)
        /\ Len(B64Text(DumpsText(arg.response))) \in 1..MAX_PAYLOAD_BYTES) =>
        /\ ret.t = "list"
        /\ Len(ret.kv) = 1
        /\ ret.kv[1][2] = build_sysex_response(arg.client_id, arg.response, arg.success)

\* a response whose base64 text has exactly 1800 characters has been built
C3_Witness ==
    /\ op = "build_chunked_sysex_response"
    /\ arg.client_id = PyInt(200)
    /\ Encodable(arg.response)
    /\ Len(B64Text(DumpsText(arg.response))) = MAX_PAYLOAD_BYTES
    /\ ret.t = "list"

\* C4: non-destructive parse failure. For every input byte sequence
\* parse_sysex returns a mapping with a client_id key and a command key or an
\* error key; no exception leaves it.
C4_ParseNeverRaises ==
    op = "parse_sysex" =>
        /\ IsDict(ret)
        /\ DictHas(ret, S("client_id"))
        /\ DictHas(ret, S("command")) \/ DictHas(ret, S("error"))

\* a frame with good header fields whose payload is no ASCII text was rejected
C4_Witness ==
    /\ op = "parse_sysex"
    /\ Len(arg.data) > 8
    /\ arg.data[8] >= 128
    /\ IsDict(ret)
    /\ DictHas(ret, S("error"))
    /\ StartsWith(DictAt(ret, S("error")).a, S("Base64 decode failed"))

\* the first check of the documented order that data violates
FirstViolation(data) ==
    LET payload_bytes == PayloadOf(data)
        json_str == DecodePayload(payload_bytes)
        command == json_loads(json_str.a)
    IN  IF Len(data) < 8 THEN "TooShort"
        ELSE IF data[1] # SYSEX_START \/ data[Len(data)] # SYSEX_END THEN "BadFraming"
        ELSE IF data[2] # MANUFACTURER_ID THEN "BadManufacturer"
        ELSE IF data[3] # ORIGIN_CLIENT THEN "WrongOrigin"
        ELSE IF data[6] # MSG_TYPE_COMMAND THEN "WrongMessageType"
        ELSE IF data[5] # 0 THEN "UnsupportedContinuation"
        ELSE IF payload_bytes = <<>> THEN "EmptyPayload"
        ELSE IF IsExc(json_str) \/ IsExc(command) THEN "DecodeFailure"
        ELSE IF ~IsDict(command) \/ ~DictHas(command, S("action")) THEN "MalformedCommand"
        ELSE "Accepted"

\* the check a result of parse_sysex reports
ReportedViolation(result) ==
    LET error == DictAt(result, S("error")).a
    IN  IF ~DictHas(result, S("error")) THEN "Accepted"
        ELSE IF error = S("Message too short") THEN "TooShort"
        ELSE IF StartsWith(error, S("Missing SysEx ")) THEN "BadFraming"
        ELSE IF StartsWith(error, S("Wrong manufacturer ID")) THEN "BadManufacturer"
        ELSE IF StartsWith(error, S("Expected origin=client")) THEN "WrongOrigin"
        ELSE IF StartsWith(error, S("Expected msg_type=command")) THEN "WrongMessageType"
        ELSE IF StartsWith(error, S("Continuation messages")) THEN "UnsupportedContinuation"
        ELSE IF error = S("Empty payload") THEN "EmptyPayload"
        ELSE IF StartsWith(error, S("Base64 decode failed")) \/ StartsWith(error, S("JSON parse failed"))
        THEN "DecodeFailure"
        ELSE IF StartsWith(error, S("Command m")) THEN "MalformedCommand"
        ELSE "Other"

\* C5: the rejection checks are applied in the order length, markers,
\* manufacturer id, origin, message type, continuation, empty payload, decode
\* failure, malformed command: the error returned is that of the first check
\* the frame violates, and a frame that violates none is accepted.
C5_CheckOrder ==
    op = "parse_sysex" =>
        /\ ReportedViolation(ret) = FirstViolation(arg.data)
        /\ FirstViolation(arg.data) = "Accepted" => DictHas(ret, S("command"))

\* a frame with a wrong origin, a wrong message type, the continuation flag
\* set and an undecodable payload was rejected for its origin
C5_Witness ==
    /\ op = "parse_sysex"
    /\ Len(arg.data) = 9
    /\ arg.data[1] = SYSEX_START /\ arg.data[2] = MANUFACTURER_ID
    /\ arg.data[Len(arg.data)] = SYSEX_END
    /\ arg.data[3] = ORIGIN_SERVER /\ arg.data[5] = 1 /\ arg.data[6] = MSG_TYPE_RESPONSE
    /\ ReportedViolation(ret) = "WrongOrigin"

(***************************************************************************)
(* Properties of the dispatcher                                            *)
(***************************************************************************)
\* the value under "action" of a parsed input that has no error, whose
\* command is a mapping; PyNone for any other input
CommandAction(parsed) ==
    IF /\ IsDict(parsed)
       /\ ~DictHas(parsed, S("error"))
       /\ DictHas(parsed, S("command"))
       /\ IsDict(DictAt(parsed, S("command")))
       /\ DictHas(DictAt(parsed, S("command")), S("action"))
    THEN DictAt(DictAt(parsed, S("command")), S("action"))
    ELSE PyNone

\* the input names, by a non-empty string, an action the registry has
IsRouted(registry, parsed) ==
    /\ IsStr(CommandAction(parsed))
    /\ CommandAction(parsed).a # <<>>
    /\ DictHas(registry, CommandAction(parsed).a)

\* the handler the registry has for the action of a routed input
RoutedHandler(registry, parsed) == DictAt(registry, CommandAction(parsed).a)

\* C6: handler exception containment. For every parsed input execute_command
\* returns a mapping and no exception leaves it; when the registered handler
\* raises with message m the result is exactly
\* {success: false, error: "Handler error: m"}.
C6_ExceptionContainment ==
    op = "execute_command" =>
        /\ ~IsExc(ret)
        /\ IsDict(ret)
        /\ (IsRouted(handlers, arg.parsed)
            /\ RoutedHandler(handlers, arg.parsed).a = S("raises")) =>
                ret = Failure(S("Handler error: ")
                              \o DictAt(RoutedHandler(handlers, arg.parsed), S("value")).a)

\* a handler registered by a caller raised Exception("boom") and the error
\* envelope was returned
C6_Witness ==
    /\ op = "execute_command"
    /\ IsRouted(handlers, arg.parsed)
    /\ RoutedHandler(handlers, arg.parsed) = Raises(Exc("Exception", S("boom")))
    /\ called = <<RoutedHandler(handlers, arg.parsed)>>
    /\ ret = Failure(S("Handler error: boom"))

\* C7: unknown action. For every non-empty action string a that is not a key
\* of the registry, execute_command on {client_id, command: {action: a,
\* params}} returns exactly {success: false, error: "Unknown action: a"} and
\* invokes no handler.
C7_UnknownAction ==
    (/\ op = "execute_command"
     /\ IsStr(CommandAction(arg.parsed))
     /\ CommandAction(arg.parsed).a # <<>>
     /\ ~DictHas(handlers, CommandAction(arg.parsed).a)) =>
        /\ ret = Failure(S("Unknown action: ") \o CommandAction(arg.parsed).a)
        /\ called = <<>>

\* system.echo was unregistered and a command for it, with params, was then
\* answered as unknown
C7_Witness ==
    /\ op = "execute_command"
    /\ CommandAction(arg.parsed) = PyStr(S("system.echo"))
    /\ DictHas(DictAt(arg.parsed, S("command")), S("params"))
    /\ ~DictHas(handlers, S("system.echo"))
    /\ DictHas(handlers, S("my.action"))
    /\ ret = Failure(S("Unknown action: system.echo"))

\* C8: envelope normalization. A mapping the handler returns without a success
\* key comes back with success: true added and the other keys unchanged; a
\* mapping with a success key comes back unchanged; a value v that is no
\* mapping comes back as {success: true, result: v}. Every value
\* execute_command returns has a success key.
C8_EnvelopeNormalization ==
    op = "execute_command" =>
        /\ IsDict(ret) /\ DictHas(ret, S("success"))
        /\ (IsRouted(handlers, arg.parsed)
            /\ RoutedHandler(handlers, arg.parsed).a = S("returns")) =>
                LET v == DictAt(RoutedHandler(handlers, arg.parsed), S("value"))
                IN  IF IsDict(v) /\ ~DictHas(v, S("success"))
                    THEN ret = PyDict(v.kv \o << <<S("success"), PyTrue>> >>)
                    ELSE IF IsDict(v) THEN ret = v
                    ELSE ret = PyDict(<< <<S("success"), PyTrue>>, <<S("result"), v>> >>)

\* a handler returned {foo: 1} and {foo: 1, success: true} came back
C8_Witness ==
    /\ op = "execute_command"
    /\ IsRouted(handlers, arg.parsed)
    /\ RoutedHandler(handlers, arg.parsed) = Returns(PyDict(<< <<S("foo"), PyInt(1)>> >>))
    /\ ret = PyDict(<< <<S("foo"), PyInt(1)>>, <<S("success"), PyTrue>> >>)

(***************************************************************************)
(* Properties of the response queue                                        *)
(***************************************************************************)
\* the ids of the records of a queue, in queue order
QueueIds(queue) == [i \in 1..Len(queue) |-> queue[i].id]

\* s is strictly increasing
Increasing(s) == \A i, j \in 1..Len(s) : i < j => s[i] < s[j]

\* C9: drain cap. With the protocol loaded and N >= 1 records in the response
\* queue, one OnIdle invocation removes exactly the head record, writes at
\* most one frame to the output port and leaves the other N - 1 records in
\* the queue in their order.
C9_DrainCap ==
    [][(op' = "OnIdle" /\ protocol_loaded /\ response_queue # <<>>) =>
          /\ response_queue' = Tail(response_queue)
          /\ dequeued' = Append(dequeued, Head(response_queue).id)
          /\ Len(written') <= 1]_vars

\* OnIdle ran on a queue of three records: the first was taken and its frame
\* written, the second and the third are left
C9_Witness ==
    /\ op = "OnIdle"
    /\ protocol_loaded
    /\ dequeued = <<1>>
    /\ Len(written) = 1
    /\ QueueIds(response_queue) = <<2, 3>>

\* C10: queue FIFO and exactly-once consumption. Over any interleaving of
\* enqueues (queue_response, the error paths of OnSysEx) and OnIdle ticks, the
\* records OnIdle takes come out in the order in which they were enqueued, and
\* no record is taken or sent more than once.
C10_QueueFIFO ==
    /\ Increasing(dequeued \o QueueIds(response_queue))
    /\ Increasing(sent)
    /\ \A i \in 1..Len(sent) : \E j \in 1..Len(dequeued) : dequeued[j] = sent[i]

\* three records were taken and sent in the order of their creation; the
\* third is the one OnSysEx queued for a frame of client 5 with an empty payload
C10_Witness ==
    /\ op = "OnIdle"
    /\ dequeued = <<1, 2, 3>>
    /\ sent = <<1, 2, 3>>
    /\ Len(written) = 1
    /\ written[1][4] = 5

(***************************************************************************)
(* Properties of OnSysEx                                                   *)
(***************************************************************************)
\* the frame of the event OnSysEx was called with
DeliveredFrame == SysexData(arg.event).a

\* OnSysEx was called with the protocol loaded and a frame that carries the
\* manufacturer id 0x7D after 0xF0
OursDelivered ==
    /\ op = "OnSysEx"
    /\ protocol_loaded
    /\ SysexData(arg.event) # PyNone
    /\ Len(DeliveredFrame) >= 3
    /\ DeliveredFrame[1] = SYSEX_START
    /\ DeliveredFrame[2] = MANUFACTURER_ID
    /\ \A i \in 1..Len(DeliveredFrame) : DeliveredFrame[i] \in 0..255

\* ... and parse_sysex accepted the frame as a command
CommandDelivered == OursDelivered /\ ~DictHas(Parsed(DeliveredFrame), S("error"))

\* the result execute_command gives for the command delivered
DeliveredResult == execute_command(handlers, Parsed(DeliveredFrame)).ret

\* the frames of build_chunked_sysex_response(client_id, result, result.success)
ChunkedFrames(client_id, result) ==
    LET chunks == build_chunked_sysex_response(client_id, result,
                                               DictGet(result, S("success"), PyTrue))
    IN  [k \in 1..Len(chunks.kv) |-> chunks.kv[k][2].a]

\* the frames of the response to the command delivered
ImmediateFrames ==
    ChunkedFrames(DictAt(Parsed(DeliveredFrame), S("client_id")), DeliveredResult)

\* a write to the output port raised during the last callback
WriteRaised == \E i \in 1..Len(caught) : caught[i].t = "OSError"

\* C11 as stated: for every inbound client frame that parses successfully while
\* the protocol is loaded, the same OnSysEx invocation executes the command and
\* writes every frame of build_chunked_sysex_response(client_id, result,
\* result.success) to the output port, in chunk order and ending with the
\* final (continuation=0) frame.
C11_EveryFrameWritten ==
    CommandDelivered =>
        /\ called = execute_command(handlers, Parsed(DeliveredFrame)).called
        /\ written = ImmediateFrames
        /\ written # <<>>
        /\ written[Len(written)][5] = 0

\* C11 amended: for every inbound client frame that parses successfully while
\* the protocol is loaded, the same OnSysEx invocation executes the command and
\* writes the frames of build_chunked_sysex_response(client_id, result,
\* result.success) to the output port in chunk order: all of them, ending with
\* the final (continuation=0) frame, when no write raises; the frames before
\* the first write that raises otherwise, the rest of the response being
\* dropped.
C11_ImmediatePath ==
    CommandDelivered =>
        /\ called = execute_command(handlers, Parsed(DeliveredFrame)).called
        /\ IF WriteRaised
           THEN /\ Len(written) < Len(ImmediateFrames)
                /\ written = SubSeq(ImmediateFrames, 1, Len(written))
           ELSE /\ written = ImmediateFrames
                /\ written # <<>>
                /\ \A k \in 1..Len(written) :
                       written[k][5] = IF k = Len(written) THEN 0 ELSE 1

\* a command whose response takes two chunks was executed and both were written
C11_Witness ==
    /\ CommandDelivered
    /\ called # <<>>
    /\ ~WriteRaised
    /\ Len(written) = 2
    /\ written[1][5] = 1
    /\ written[2][5] = 0

\* ... and parse_sysex rejected the frame, well framed, for its origin, its
\* message type, its continuation flag or its payload
RejectedDelivered ==
    /\ OursDelivered
    /\ Len(DeliveredFrame) >= 8
    /\ DeliveredFrame[Len(DeliveredFrame)] = SYSEX_END
    /\ DictHas(Parsed(DeliveredFrame), S("error"))

\* C12: when an inbound frame carrying manufacturer id 0x7D fails to parse, an
\* error frame (status byte 0x01, the client id of the rejection) is written
\* to the output port within the same OnSysEx invocation.
C12_ParseFailureAnswered ==
    RejectedDelivered =>
        /\ written # <<>>
        /\ written[1][4] = And7F(DictAt(Parsed(DeliveredFrame), S("client_id"))).a[1]
        /\ written[1][7] = STATUS_ERROR

\* the dispatch of the command delivered ends in NoAction (an action that is
\* empty or null), UnknownAction (no handler under the action) or
\* HandlerException (the lookup or the handler raises)
DispatchFails ==
    /\ CommandDelivered
    /\ \/ ~IsRouted(handlers, Parsed(DeliveredFrame))
       \/ RoutedHandler(handlers, Parsed(DeliveredFrame)).a = S("raises")

RECURSIVE JoinPayloads(_)
\* the payloads of the frames, one after the other
JoinPayloads(frames) ==
    IF frames = <<>> THEN <<>>
    ELSE PayloadOf(Head(frames)) \o JoinPayloads(Tail(frames))

\* what a client decodes from the payload bytes: the JSON value, or the
\* exception of the decoding
Decoded(payload) ==
    IF IsExc(DecodePayload(payload)) THEN DecodePayload(payload)
    ELSE json_loads(DecodePayload(payload).a)

\* the frames written carry status 0x01 and their payload decodes to
\* {success: false, error: <a string>, ...}
ErrorResponseWritten ==
    /\ written # <<>>
    /\ \A k \in 1..Len(written) : written[k][7] = STATUS_ERROR
    /\ IsDict(Decoded(JoinPayloads(written)))
    /\ DictGet(Decoded(JoinPayloads(written)), S("success"), PyNone) = PyFalse
    /\ IsStr(DictGet(Decoded(JoinPayloads(written)), S("error"), PyNone))

\* C13 as stated: for every inbound command whose dispatch ends in NoAction,
\* UnknownAction or HandlerException, a response frame with status byte 0x01
\* whose payload decodes to an envelope with success=false and an error string
\* is written to the output port.
C13_AlwaysClientVisible == DispatchFails => ErrorResponseWritten

\* C13 amended: for every inbound command whose dispatch ends in NoAction,
\* UnknownAction or HandlerException, a response frame with status byte 0x01
\* whose payload decodes to an envelope with success=false and an error string
\* is written to the output port by the same OnSysEx invocation, unless a write
\* to the output port raises: then the response is dropped, neither queued nor
\* retried.
C13_DispatchErrorVisible ==
    DispatchFails =>
        IF WriteRaised
        THEN Len(written) < Len(ImmediateFrames) /\ response_queue = <<>>
        ELSE ErrorResponseWritten /\ written = ImmediateFrames

\* the handler of 'my.action' raised ValueError("boom") and the client was
\* sent {success: false, error: "Handler error: boom"} with status 0x01
C13_Witness ==
    /\ DispatchFails
    /\ called = <<Raises(Exc("ValueError", S("boom")))>>
    /\ Len(written) = 1
    /\ written[1][7] = STATUS_ERROR
    /\ Decoded(PayloadOf(written[1])) = Failure(S("Handler error: boom"))

\* parse_sysex reports the wrong-manufacturer error for the frame
WrongManufacturer(frame) ==
    /\ DictHas(parse_sysex(frame), S("error"))
    /\ StartsWith(DictAt(parse_sysex(frame), S("error")).a, S("Wrong manufacturer ID: "))

\* C14: foreign-protocol ignore. For every inbound frame whose second byte is
\* not 0x7D, OnSysEx writes nothing to the output port and enqueues no record;
\* parse_sysex reports the wrong-manufacturer error for every such frame of
\* length >= 8 with correct start and end markers, and for no other frame.
C14_ForeignIgnored ==
    op = "OnSysEx" =>
        /\ (Len(DeliveredFrame) >= 2 /\ DeliveredFrame[2] # MANUFACTURER_ID) =>
               /\ written = <<>>
               /\ response_queue = <<>>
               /\ enqueued = 0
               /\ called = <<>>
        /\ WrongManufacturer(DeliveredFrame) <=>
               /\ Len(DeliveredFrame) >= 8
               /\ DeliveredFrame[1] = SYSEX_START
               /\ DeliveredFrame[Len(DeliveredFrame)] = SYSEX_END
               /\ DeliveredFrame[2] # MANUFACTURER_ID

\* a well-framed message of another manufacturer, with a payload, came in
\* while the protocol was loaded: nothing was written or queued and the event
\* was left to other scripts
C14_Witness ==
    /\ op = "OnSysEx"
    /\ protocol_loaded
    /\ Len(DeliveredFrame) > 8
    /\ DeliveredFrame[1] = SYSEX_START
    /\ DeliveredFrame[2] = 126
    /\ DeliveredFrame[Len(DeliveredFrame)] = SYSEX_END
    /\ WrongManufacturer(DeliveredFrame)
    /\ written = <<>>
    /\ response_queue = <<>>
    /\ ~handled

(***************************************************************************)
(* Properties of the frame builders                                        *)
(***************************************************************************)
\* the frames a builder returned: the frame of build_sysex_response and
\* build_sysex_command, the frames of build_chunked_sysex_response, none
\* where the builder raised
FramesReturned ==
    IF IsExc(ret) \/ ret = PyNone THEN <<>>
    ELSE IF ret.t = "list" THEN [k \in 1..Len(ret.kv) |-> ret.kv[k][2].a]
    ELSE <<ret.a>>

\* C15: clientId masking. For every integer clientId, byte 3 of every frame
\* that build_sysex_response, build_chunked_sysex_response and
\* build_sysex_command produce equals clientId & 0x7F, the residue of clientId
\* modulo 128 (200 gives 72, -1 gives 127).
C15_ClientIdMasked ==
    (/\ op \in {"build_sysex_response", "build_chunked_sysex_response",
                "build_sysex_command"}
     /\ arg.client_id.t = "int") =>
        /\ FramesReturned # <<>>
        /\ \A k \in 1..Len(FramesReturned) :
               /\ FramesReturned[k][4] \in 0..127
               /\ FramesReturned[k][4] = arg.client_id.a[1] % 128

\* a two-chunk response for client id 200 carries 72 in both frames
C15_Witness ==
    /\ op = "build_chunked_sysex_response"
    /\ arg.client_id = PyInt(200)
    /\ Len(FramesReturned) = 2
    /\ FramesReturned[1][4] = 72
    /\ FramesReturned[2][4] = 72

WellFormed(frame) ==
    /\ Len(frame) >= 8
    /\ frame[1] = 240
    /\ frame[2] = 125
    /\ frame[3] = 1
    /\ frame[6] = 2
    /\ frame[Len(frame)] = 247
    /\ \A i \in 2..(Len(frame) - 1) : frame[i] \in 0..127

\* C17: every frame returned by build_sysex_response or
\* build_chunked_sysex_response is well formed: at least 8 bytes long, first
\* byte 0xF0, second byte 0x7D, origin byte 0x01, message type 0x02, last byte
\* 0xF7, and every byte strictly between the first and the last has its high
\* bit clear.
C17_FramesWellFormed ==
    op \in {"build_sysex_response", "build_chunked_sysex_response"} =>
        \A k \in 1..Len(FramesReturned) : WellFormed(FramesReturned[k])

\* three well-formed frames came back for a response of three chunks whose
\* client id, 200, does not fit seven bits
C17_Witness ==
    /\ op = "build_chunked_sysex_response"
    /\ arg.client_id = PyInt(200)
    /\ Len(FramesReturned) = 3
    /\ \A k \in 1..3 : WellFormed(FramesReturned[k])
    /\ Len(FramesReturned[1]) = MAX_PAYLOAD_BYTES + 8

\* the length of the base64 text of the response build_chunked_sysex_response
\* was called with
Base64Length == Len(B64Text(json_dumps(arg.response).a))

\* C18: chunk size ceiling. For a base64 text of length L >= 1,
\* build_chunked_sysex_response returns ceil(L / 1800) frames, every frame but
\* the last carries exactly 1800 payload bytes and the last carries the
\* remaining 1 to 1800; no frame returned carries more than 1800 or zero
\* payload bytes.
C18_ChunkSizeCeiling ==
    (op = "build_chunked_sysex_response" /\ ~IsExc(ret)) =>
        /\ \A k \in 1..Len(FramesReturned) :
               Len(PayloadOf(FramesReturned[k])) \in 1..1800
        /\ ~IsExc(json_dumps(arg.response)) =>
               /\ Base64Length >= 1
               /\ Len(FramesReturned) = (Base64Length + 1799) \div 1800
               /\ \A k \in 1..(Len(FramesReturned) - 1) :
                      Len(PayloadOf(FramesReturned[k])) = 1800
               /\ Len(PayloadOf(FramesReturned[Len(FramesReturned)])) =
                      Base64Length - 1800 * (Len(FramesReturned) - 1)

\* a base64 text of 3604 characters came back as frames of 1800, 1800 and 4
\* payload bytes
C18_Witness ==
    /\ op = "build_chunked_sysex_response"
    /\ ~IsExc(ret)
    /\ arg.response = SizedResponse(3604)
    /\ Base64Length = 3604
    /\ Len(FramesReturned) = 3
    /\ Len(PayloadOf(FramesReturned[1])) = 1800
    /\ Len(PayloadOf(FramesReturned[2])) = 1800
    /\ Len(PayloadOf(FramesReturned[3])) = 4

(***************************************************************************)
(* Properties of the callbacks                                             *)
(***************************************************************************)
\* C19: no exception crosses the host-callback boundary. In every reachable
\* state and for every event, parse result, handler behaviour and output-port
\* write outcome (a write that raises included), OnInit, OnDeInit, OnSysEx and
\* OnIdle return normally: what comes back is None, never an exception.
C19_NoExceptionEscapes ==
    op \in {"OnInit", "OnDeInit", "OnSysEx", "OnIdle"} =>
        /\ ~IsExc(ret)
        /\ ret = PyNone

\* the write of a queued response raised in OnIdle, the exception was caught
\* and OnIdle returned None
C19_Witness ==
    /\ op = "OnIdle"
    /\ caught = <<Exc("OSError", S("midiOutSysex"))>>
    /\ dequeued # <<>>
    /\ written = <<>>
    /\ ret = PyNone

\* C20: a tick is a no-op when sending is unavailable. If the queue is not
\* empty and the protocol modules are not loaded, or the write to the output
\* port fails, an OnIdle invocation leaves the queue exactly as it was, so
\* that the head record is retried on the next tick.
C20_TickRetainsUnsent ==
    [][(/\ op' = "OnIdle"
        /\ response_queue # <<>>
        /\ (~protocol_loaded \/ WriteRaised'))
       => response_queue' = response_queue]_vars

\* C21: a failure to load the protocol modules in OnInit degrades to a mode
\* without SysEx handling. OnInit then returns normally with _protocol_loaded
\* False, and while _protocol_loaded is False an OnSysEx invocation invokes no
\* handler, writes nothing to the output port, enqueues nothing and raises
\* nothing; a parse would show in the record or the frames it leads to.
C21_DegradedMode ==
    [][/\ (op' = "OnInit" /\ arg'.protocol # "ok")
            => (~protocol_loaded' /\ ret' = PyNone)
       /\ (op' = "OnSysEx" /\ ~protocol_loaded)
            => /\ called' = <<>>
               /\ written' = <<>>
               /\ response_queue' = response_queue
               /\ enqueued' = enqueued
               /\ caught' = <<>>
               /\ ret' = PyNone]_vars

\* a command for a registered handler arrived after the protocol modules had
\* failed to load with records waiting, and nothing was done with it
C21_Witness ==
    /\ op = "OnSysEx"
    /\ ~protocol_loaded
    /\ arg.event.sysex = CommandFrame(5, "system.echo", PyDict(<< <<S("n"), PyInt(1)>> >>))
    /\ handlers # PyNone
    /\ response_queue # <<>>
    /\ called = <<>>
    /\ written = <<>>
    /\ handled

\* C22: OnDeInit clears the queue. From any reachable state the response queue
\* is empty when OnDeInit returns, and a record that was queued before it and
\* not yet written is never written to the output port afterwards.
C22_DeInitClears ==
    /\ [][op' = "OnDeInit" => response_queue' = <<>>]_vars
    /\ \A id \in 1..MaxEnqueued :
         []((/\ op = "OnDeInit"
             /\ id <= enqueued
             /\ \A k \in 1..Len(sent) : sent[k] # id)
            => [](\A k \in 1..Len(sent) : sent[k] # id))

\* OnDeInit returned after two records were queued and one of them written:
\* the other one is gone from the queue
C22_Witness ==
    /\ op = "OnDeInit"
    /\ response_queue = <<>>
    /\ enqueued = 2
    /\ sent = <<1>>
    /\ dequeued = <<1>>

(***************************************************************************)
(* Properties of the registry                                              *)
(***************************************************************************)
\* the action names of the calls, and those registered at import
RegistryNames ==
    LookupNames \cup {S("system.ping"), S("system.list_handlers"), S("system.echo")}

\* the handler the registry has under an action, Absent where it has none
Entry(registry, action) ==
    IF DictHas(registry, action) THEN DictAt(registry, action) ELSE Absent

\* how many times the list of names has the action
Occurrences(names, action) ==
    Cardinality({ i \in 1..Len(names.kv) : names.kv[i][2] = PyStr(action) })

\* C23: the registry is a last-write-wins map. Every call leaves under each
\* action what the most recent register_handler or unregister_handler call for
\* that action left: register_handler(a, h) leaves h under a, whatever was
\* there, unregister_handler(a) leaves a unregistered, and no other call and no
\* call for another action changes the entry of a. get_handler returns and
\* execute_command invokes the handler the registry has under the action, and
\* list_handlers returns each registered action exactly once and nothing else.
C23_LastWriteWins ==
    [][/\ \A action \in RegistryNames :
            Entry(handlers', action) =
                IF op' = "register_handler" /\ arg'.action = action THEN arg'.handler
                ELSE IF op' = "unregister_handler" /\ arg'.action = action THEN Absent
                ELSE Entry(handlers, action)
       /\ \A i \in 1..Len(handlers'.kv) : handlers'.kv[i][1] \in RegistryNames
       /\ op' = "get_handler" =>
            ret' = IF DictHas(handlers, arg'.action)
                   THEN Entry(handlers, arg'.action) ELSE PyNone
       /\ (op' = "execute_command" /\ IsRouted(handlers, arg'.parsed)) =>
            called' = <<Entry(handlers, CommandAction(arg'.parsed).a)>>
       /\ op' = "list_handlers" =>
            /\ ret'.t = "list"
            /\ \A action \in RegistryNames :
                 Occurrences(ret', action) = IF DictHas(handlers, action) THEN 1 ELSE 0
            /\ \A i \in 1..Len(ret'.kv) :
                 /\ IsStr(ret'.kv[i][2])
                 /\ DictHas(handlers, ret'.kv[i][2].a)]_vars

\* the built-in system.echo was overwritten by a caller's handler, my.action
\* was registered as well, and a command for system.echo ran the caller's
\* handler
C23_Witness ==
    /\ op = "execute_command"
    /\ CommandAction(arg.parsed) = PyStr(S("system.echo"))
    /\ Entry(handlers, S("system.echo")) = Returns(PyStr(S("done")))
    /\ DictHas(handlers, S("my.action"))
    /\ called = <<Returns(PyStr(S("done")))>>
    /\ ret = PyDict(<< <<S("success"), PyTrue>>, <<S("result"), PyStr(S("done"))>> >>)

\* C24: unregister_handler(a) returns True exactly when a was registered
\* immediately before the call. Afterwards a is not registered in either case,
\* every other entry of the registry is as it was, in the same order, and
\* unregister_handler(a) called again at once returns False and changes
\* nothing.
C24_UnregisterReports ==
    [][op' = "unregister_handler" =>
         /\ ret' = PyBool(DictHas(handlers, arg'.action))
         /\ ~DictHas(handlers', arg'.action)
         /\ handlers'.kv = SelectSeq(handlers.kv, LAMBDA item : item[1] # arg'.action)
         /\ \A action \in RegistryNames \ {arg'.action} :
              Entry(handlers', action) = Entry(handlers, action)
         /\ unregister_handler(handlers', arg'.action) =
                [registry |-> handlers', ret |-> PyFalse]]_vars

\* system.echo was registered and is unregistered: True was returned and the
\* handler a caller had registered under my.action is still there
C24_Witness ==
    /\ op = "unregister_handler"
    /\ arg.action = S("system.echo")
    /\ ret = PyTrue
    /\ ~DictHas(handlers, S("system.echo"))
    /\ DictHas(handlers, S("my.action"))
    /\ DictHas(handlers, S("system.ping"))

\* the parsed command for a built-in action, with and without params
DiagnosticCommands(action) ==
    { PyDict(<< <<S("client_id"), PyInt(5)>>,
                <<S("command"), PyDict(<< <<S("action"), PyStr(action)>> >>)>> >>) }
    \cup { PyDict(<< <<S("client_id"), PyInt(5)>>,
                     <<S("command"), PyDict(<< <<S("action"), PyStr(action)>>,
                                               <<S("params"), params>> >>)>> >>) :
             params \in { PyDict(<<>>), PyNone, PyInt(1),
                          PyDict(<< <<S("success"), PyFalse>>,
                                    <<S("notes"), PyList(<<PyInt(60), PyStr(<<>>)>>)>> >>) } }

\* params of a parsed command as execute_command takes it: {} when absent
ParamsOf(parsed) == DictGet(DictAt(parsed, S("command")), S("params"), PyDict(<<>>))

\* C25: the built-in diagnostics are always exposed. In every state in which
\* the protocol is loaded, whether the modules of the domain handlers loaded or
\* not, system.ping, system.list_handlers and system.echo are registered with
\* their built-in functions (nothing unregisters them here); a command for
\* system.list_handlers is answered with exactly the action names registered at
\* that moment, in the order of the registry, and a command for system.echo
\* with {success: true, echo: params}, params as given.
C25_DiagnosticsExposed ==
    protocol_loaded =>
        /\ handlers # PyNone
        /\ Entry(handlers, S("system.ping")) = Function("_handle_ping")
        /\ Entry(handlers, S("system.list_handlers")) = Function("_handle_list_handlers")
        /\ Entry(handlers, S("system.echo")) = Function("_handle_echo")
        /\ \A parsed \in DiagnosticCommands(S("system.list_handlers")) :
             execute_command(handlers, parsed).ret =
                 PyDict(<< <<S("success"), PyTrue>>,
                           <<S("handlers"), KeysList(handlers)>> >>)
        /\ \A parsed \in DiagnosticCommands(S("system.echo")) :
             execute_command(handlers, parsed).ret =
                 PyDict(<< <<S("success"), PyTrue>>, <<S("echo"), ParamsOf(parsed)>> >>)

\* the modules of the domain handlers failed to import, the protocol is loaded
\* all the same, and the system.echo command of client 5 was answered on the
\* port with its params
C25_Witness ==
    /\ op = "OnSysEx"
    /\ protocol_loaded
    /\ ~DictHas(handlers, S("transport.stop"))
    /\ called = <<Function("_handle_echo")>>
    /\ Len(written) = 1
    /\ Decoded(PayloadOf(written[1])) =
           PyDict(<< <<S("success"), PyTrue>>,
                     <<S("echo"), PyDict(<< <<S("n"), PyInt(1)>> >>)>> >>)

(***************************************************************************)
(* Properties of the parsed command                                        *)
(***************************************************************************)
\* C26: parse_sysex accepts a decoded payload only if it is a JSON object that
\* has an action key whose value is a string. Whenever parse_sysex returns a
\* command, the command is a mapping, it has the key action, and the value
\* under action is a str; a payload that is no object, has no action, or has
\* an action that is a number, null, a list or an object is answered with an
\* error instead.
C26_ActionIsString ==
    (op = "parse_sysex" /\ IsDict(ret) /\ DictHas(ret, S("command"))) =>
        /\ IsDict(DictAt(ret, S("command")))
        /\ DictHas(DictAt(ret, S("command")), S("action"))
        /\ IsStr(DictAt(DictAt(ret, S("command")), S("action")))

\* the parsed input is a mapping without an error key whose command, {} when
\* absent, is a mapping with no action or with an action that is falsy
NoAction(parsed) ==
    /\ IsDict(parsed)
    /\ ~DictHas(parsed, S("error"))
    /\ IsDict(DictGet(parsed, S("command"), PyDict(<<>>)))
    /\ ~Truthy(DictGet(DictGet(parsed, S("command"), PyDict(<<>>)), S("action"), PyNone))

\* the parsed input is a mapping with an error key
CarriesError(parsed) == IsDict(parsed) /\ DictHas(parsed, S("error"))

\* C27 as stated: for a parsed command with no action or a falsy action
\* execute_command returns exactly {success: false, error: "No action
\* specified"} and invokes no handler; for a parsed input with an error key e
\* it returns exactly {success: false, error: e}.
C27_NoActionSpecified ==
    op = "execute_command" =>
        /\ NoAction(arg.parsed) =>
             (ret = Failure(S("No action specified")) /\ called = <<>>)
        /\ CarriesError(arg.parsed) =>
             ret = PyDict(<< <<S("success"), PyFalse>>,
                             <<S("error"), DictAt(arg.parsed, S("error"))>> >>)

\* C27 amended: the error text is "No action specified in command". For a
\* parsed command with no action or a falsy action (empty string, null, 0,
\* false, an empty list or mapping) execute_command returns exactly
\* {success: false, error: "No action specified in command"} and invokes no
\* handler; for a parsed input with an error key e it returns exactly
\* {success: false, error: e} and invokes no handler, whatever else the input
\* carries.
C27_MissingAction ==
    op = "execute_command" =>
        /\ NoAction(arg.parsed) =>
             (ret = Failure(S("No action specified in command")) /\ called = <<>>)
        /\ CarriesError(arg.parsed) =>
             /\ ret = PyDict(<< <<S("success"), PyFalse>>,
                                <<S("error"), DictAt(arg.parsed, S("error"))>> >>)
             /\ called = <<>>

\* a command whose action is the empty string, with params, was answered with
\* the error while a caller's handler was registered
C27_Witness ==
    /\ op = "execute_command"
    /\ NoAction(arg.parsed)
    /\ DictHas(arg.parsed, S("command"))
    /\ DictGet(DictAt(arg.parsed, S("command")), S("action"), PyNone) = PyStr(<<>>)
    /\ DictHas(DictAt(arg.parsed, S("command")), S("params"))
    /\ DictHas(handlers, S("my.action"))
    /\ ret = Failure(S("No action specified in command"))
    /\ called = <<>>

(***************************************************************************)
(* Properties of the frames written                                        *)
(***************************************************************************)
\* the JSON value the payloads of the frames carry
Envelope(frames) == Decoded(JoinPayloads(frames))

\* STATUS_OK if success else STATUS_ERROR
StatusFor(success) == IF Truthy(success) THEN STATUS_OK ELSE STATUS_ERROR

\* the frames written by the last callback are a whole response
ResponseWritten ==
    /\ op \in {"OnSysEx", "OnIdle"}
    /\ written # <<>>
    /\ written[Len(written)][5] = 0

Answered ==
    /\ op \in {"OnSysEx", "OnIdle"}
    /\ protocol_loaded
    /\ SysexData(arg.event) # PyNone
    /\ Len(DeliveredFrame) >= 4
    /\ DeliveredFrame[1] = SYSEX_START
    /\ DeliveredFrame[2] = MANUFACTURER_ID
    /\ written # <<>>

\* the frame has the length, the start byte and the end byte parse_sysex
\* asks for before it reads the header fields
Framed(frame) ==
    /\ Len(frame) >= 8
    /\ frame[1] = SYSEX_START
    /\ frame[Len(frame)] = SYSEX_END

C30_AcceptedClientIdRange ==
    (op = "parse_sysex" /\ IsDict(ret) /\ DictHas(ret, S("command"))) =>
        /\ DictAt(ret, S("client_id")).t = "int"
        /\ DictAt(ret, S("client_id")).a[1] \in 1..127

\* C31: best-effort client id on rejection. Whenever parse_sysex rejects a
\* frame that is long enough to contain byte 3, the client_id of the error
\* result equals byte 3 of the frame; client_id 0 is returned only when byte 3
\* cannot be extracted (or is 0 itself).
C31_BestEffortClientId ==
    (op = "parse_sysex" /\ IsDict(ret) /\ DictHas(ret, S("error"))) =>
        DictAt(ret, S("client_id")) =
            IF Len(arg.data) >= 4 THEN PyInt(arg.data[4]) ELSE PyInt(0)

(***************************************************************************)
(* Properties of OnInit                                                    *)
(***************************************************************************)
\* OnInit returned; the protocol modules were imported and the import of the
\* domain handler modules failed
HandlersFailed ==
    /\ op = "OnInit"
    /\ arg.protocol = "ok"
    /\ arg.handler_modules # "ok"

\* an inbound system.echo command is parsed, run by the built-in handler and
\* answered with one frame
EchoAnswers ==
    LET body == OnSysExBody(protocol_loaded, handlers,
                            CommandFrame(5, "system.echo", PyDict(<< <<S("n"), PyInt(1)>> >>)))
    IN  /\ body.handled
        /\ body.called = <<Function("_handle_echo")>>
        /\ Len(body.chunks) = 1
        /\ body.chunks[1][7] = STATUS_OK
        /\ body.append = <<>>

\* C32 as stated: if the protocol modules load in OnInit but loading the domain
\* handler modules fails with any kind of error, OnInit finishes with the
\* protocol marked loaded, so that later inbound commands are still parsed and
\* the built-in actions still answer.
C32_AnyHandlerFailureTolerated ==
    HandlersFailed => (protocol_loaded /\ EchoAnswers)

\* C32 amended: if the protocol modules load in OnInit and the import of the
\* domain handler modules fails with ImportError, OnInit finishes with the
\* protocol marked loaded, provided the import of the plugin handlers raises
\* nothing but ImportError, and later inbound commands are still parsed and
\* answered by the built-in actions. If the import of the domain handler
\* modules, or of the plugin handlers, fails with any other exception, OnInit
\* finishes with the protocol marked not loaded.
C32_HandlerImportErrorTolerated ==
    /\ (HandlersFailed /\ arg.handler_modules = "ImportError"
            /\ arg.plugin_module # "Exception") =>
           (protocol_loaded /\ EchoAnswers)
    /\ (op = "OnInit" /\ arg.protocol = "ok"
            /\ "Exception" \in {arg.handler_modules, arg.plugin_module}) =>
           ~protocol_loaded

\* the handler modules failed to import, the plugin handlers as well, and the
\* protocol is loaded with the built-in handlers only
C32_Witness ==
    /\ HandlersFailed
    /\ arg.handler_modules = "ImportError"
    /\ arg.plugin_module = "ImportError"
    /\ protocol_loaded
    /\ handlers = BuiltinHandlers
    /\ Len(caught) = 2
    /\ ret = PyNone

\* C33: get_handlers() of the device script returns the registry that command
\* dispatch uses. After any sequence of register_handler and unregister_handler
\* calls the mapping it returns has the same keys as list_handlers() returns,
\* and the handler execute_command invokes for a routed command is the entry
\* of that mapping.
C33_DeviceRegistryIsDispatchRegistry ==
    /\ op \in {"register_handler", "unregister_handler", "list_handlers"} =>
          list_handlers(get_handlers) = list_handlers(handlers)
    /\ (op = "execute_command" /\ IsRouted(handlers, arg.parsed)) =>
          called = <<Entry(get_handlers, CommandAction(arg.parsed).a)>>

(***************************************************************************)
(* Properties of playlist.jump_to_marker                                   *)
(***************************************************************************)
\* the marker name contains the given name, case-insensitively
NameMatches(name, marker_name) ==
    \E k \in 0..(Len(marker_name) - Len(name)) :
        lower(SubSeq(marker_name, k + 1, k + Len(name))) = lower(name)

\* the positions 0..n-1 of the markers whose name contains the given name
Matching(markers, name) ==
    { i \in 0..(Len(markers) - 1) : NameMatches(name, markers[i + 1]) }

\* C34: marker search by name. When playlist.jump_to_marker is called with a
\* name and no index and some marker at any position 0..n-1 has a name
\* containing the given name case-insensitively, the handler returns success
\* with the name and index of the first such marker; when no marker matches it
\* returns the error 'Marker "<name>" not found'.
C34_MarkerSearchByName ==
    (/\ op = "handle_playlist_jump_to_marker"
     /\ arg.available
     /\ DictHas(arg.params, S("name"))
     /\ ~DictHas(arg.params, S("index"))) =>
        LET name == DictAt(arg.params, S("name")).a
            matching == Matching(arg.markers, name)
            first == CHOOSE i \in matching : \A j \in matching : i <= j
        IN  ret = IF matching # {}
                  THEN PyDict(<< <<S("success"), PyTrue>>,
                                 <<S("marker"), PyStr(arg.markers[first + 1])>>,
                                 <<S("index"), PyInt(first)>> >>)
                  ELSE Failure(S("Marker \"") \o name \o S("\" not found"))

C36_NoResponseLost ==
    [][\A i \in 1..Len(response_queue) :
          (\A j \in 1..Len(response_queue') :
               response_queue'[j].id # response_queue[i].id) =>
              \/ op' = "OnDeInit"
              \/ /\ op' = "OnIdle"
                 /\ written' # <<>>
                 /\ sent' = Append(sent, response_queue[i].id)]_vars

(***************************************************************************)
(* Properties of the order of the responses                                *)
(***************************************************************************)
\* the record is the error response OnSysEx queues for a frame of the events
\* that begins with 0xF0 0x7D and that parse_sysex rejects
AnswersFrame(record) ==
    \E frame \in { f \in EventFrames : /\ \A i \in 1..Len(f) : f[i] \in 0..255
                                       /\ Len(f) >= 3
                                       /\ f[1] = SYSEX_START
                                       /\ f[2] = MANUFACTURER_ID } :
        /\ DictHas(Parsed(frame), S("error"))
        /\ record.client_id = ParseErrorRecord(Parsed(frame)).client_id
        /\ record.response = ParseErrorRecord(Parsed(frame)).response
        /\ record.success = ParseErrorRecord(Parsed(frame)).success

\* C37: responses leave in command arrival order. For any sequence of inbound
\* frames carrying manufacturer id 0x7D, interleaved with ticks in any way, the
\* responses written to the output port appear in the order of the frames they
\* answer: OnSysEx writes no response to a frame while the response to an
\* earlier frame is still waiting in the queue.
C37_ArrivalOrder ==
    (op = "OnSysEx" /\ written # <<>>) =>
        \A i \in 1..Len(response_queue) : ~AnswersFrame(response_queue[i])

(***************************************************************************)
(* Properties of the bridge on a loopback port                             *)
(***************************************************************************)
\* C38: no response to responses. A frame of origin 0x01, such as the frames
\* the bridge writes itself and a loopback port delivers back to OnSysEx,
\* never makes the bridge write or enqueue a further response, so that one
\* client command causes only finitely many frames to be written.
C38_NoResponseToResponses ==
    (OursDelivered /\ Framed(DeliveredFrame) /\ DeliveredFrame[3] = ORIGIN_SERVER) =>
        (response_queue = <<>> /\ written = <<>>)

(***************************************************************************)
(* Properties of the queue across OnSysEx                                  *)
(***************************************************************************)
\* OnSysEx was called with an event that has no frame, or a frame that does
\* not begin with 0xF0 0x7D
ForeignDelivered ==
    /\ op = "OnSysEx"
    /\ \/ SysexData(arg.event) = PyNone
       \/ Len(DeliveredFrame) < 3
       \/ DeliveredFrame[1] # SYSEX_START
       \/ DeliveredFrame[2] # MANUFACTURER_ID

C40_ForeignLeftUnhandled ==
    (/\ op = "OnSysEx"
     /\ SysexData(arg.event) # PyNone
     /\ Len(DeliveredFrame) >= 2
     /\ DeliveredFrame[1] # SYSEX_START \/ DeliveredFrame[2] # MANUFACTURER_ID) =>
        ~handled

=============================================================================
